---- MODULE Spec2Model ----
(***************************************************************************)
(* build_defs_browser.py: the extraction pass over the XML files of a      *)
(* RimWorld Data directory, the parent chain resolver, and the query       *)
(* engine of the generated single-file browser.                            *)
(*                                                                         *)
(* Text is a TLA+ string (Len, SubSeq, Head, Tail and \o act on strings).  *)
(* A value that may be None in the program is a sequence: <<>> for None,   *)
(* <<v>> for the value v.                                                  *)
(***************************************************************************)
EXTENDS Integers, Sequences, FiniteSets, TLC

\* ------------------------------------------------------------------------
\* Bounds of the model
\* ------------------------------------------------------------------------

\* largest number of XML files in a scanned data directory
MaxFiles == 3

\* number of defs in the long single-file parent chains
ChainLen == 103

\* the most XML files of a record set handed to build_parent_chains in every order
MaxResolverFiles == 2

\* the most hashchange events queued at one time
MaxHashEvents == 1

\* the most list items of a child element handed to summarize_child_node
MaxListLen == 14

\* the most children of an element of mixed structure
MaxMixedLen == 8

\* the most clicks of the filters button in one run
MaxClicks == 3

\* ------------------------------------------------------------------------
\* Text
\* ------------------------------------------------------------------------

\* the element of a set of one element; TheOne({e(x) : x \in {v}}) is e(v) with
\* v computed once
TheOne(S) == CHOOSE x \in S : TRUE

None == <<>>

Some(v) == <<v>>

\* the characters of the model's texts in code point order
CodePoints == "\n \"#-./0123456789:<=>ABCDEFGHIJKLMNOPQRSTUVWXYZ[]_abcdefghijklmnopqrstuvwxyz|"

UpperCase == "ABCDEFGHIJKLMNOPQRSTUVWXYZ"

LowerCase == "abcdefghijklmnopqrstuvwxyz"

Digits == "0123456789"

CharAt(s, i) == SubSeq(s, i, i)

\* 1-based position of the one-character text c in table, 0 when absent
IndexIn(c, table) ==
    IF \E i \in 1..Len(table) : CharAt(table, i) = c
    THEN CHOOSE i \in 1..Len(table) : CharAt(table, i) = c
    ELSE 0

CharsOf(table) == {CharAt(table, i) : i \in 1..Len(table)}

\* the code point order of the characters, as a table
OrdTable == [c \in CharsOf(CodePoints) |-> IndexIn(c, CodePoints)]

Ord(c) == OrdTable[c]

IsSpace(c) == c = " " \/ c = "\n"

\* str.lower / toLowerCase on one character, as a table
LowerTable == [c \in CharsOf(UpperCase) |-> CharAt(LowerCase, IndexIn(c, UpperCase))]

LowerChar(c) == IF c \in DOMAIN LowerTable THEN LowerTable[c] ELSE c

\* str.lower / toLowerCase, one half of the text after the other
RECURSIVE ToLower(_)
ToLower(s) ==
    IF s = "" THEN ""
    ELSE IF Len(s) = 1 THEN LowerChar(s)
    ELSE ToLower(SubSeq(s, 1, Len(s) \div 2)) \o ToLower(SubSeq(s, Len(s) \div 2 + 1, Len(s)))

RECURSIVE LStrip(_)
LStrip(s) == IF s # "" /\ IsSpace(Head(s)) THEN LStrip(Tail(s)) ELSE s

RECURSIVE RStrip(_)
RStrip(s) ==
    IF s # "" /\ IsSpace(CharAt(s, Len(s))) THEN RStrip(SubSeq(s, 1, Len(s) - 1)) ELSE s

Strip(s) == RStrip(LStrip(s))

\* Python's < on str: lexicographic by code point
RECURSIVE StrLess(_, _)
StrLess(a, b) ==
    IF b = "" THEN FALSE
    ELSE IF a = "" THEN TRUE
    ELSE IF Head(a) = Head(b) THEN StrLess(Tail(a), Tail(b))
    ELSE Ord(Head(a)) < Ord(Head(b))

\* str.includes / the in operator on text
Includes(hay, needle) ==
    \E i \in 1..(Len(hay) - Len(needle) + 1) : SubSeq(hay, i, i + Len(needle) - 1) = needle

\* f"{n:04d}" for 0 <= n <= 9999
Pad4(n) ==
    CharAt(Digits, ((n \div 1000) % 10) + 1) \o CharAt(Digits, ((n \div 100) % 10) + 1)
      \o CharAt(Digits, ((n \div 10) % 10) + 1) \o CharAt(Digits, (n % 10) + 1)

\* a sequence of texts joined with a separator
RECURSIVE Join(_, _)
Join(parts, sep) ==
    IF parts = <<>> THEN ""
    ELSE IF Len(parts) = 1 THEN parts[1]
    ELSE parts[1] \o sep \o Join(Tail(parts), sep)

\* the concatenation of a sequence of sequences
RECURSIVE Flatten(_)
Flatten(ss) == IF ss = <<>> THEN <<>> ELSE Head(ss) \o Flatten(Tail(ss))

\* ------------------------------------------------------------------------
\* XML elements (xml.etree.ElementTree)
\* ------------------------------------------------------------------------

\* an Element: tag, the attributes Class and Abstract (None when absent),
\* text (None when the element has none) and the child elements in order
El(tag, class, abstract, text, kids) ==
    [tag |-> tag, Class |-> class, Abstract |-> abstract, text |-> text, kids |-> kids]

Leaf(tag, text) == El(tag, None, None, Some(text), <<>>)

Node(tag, kids) == El(tag, None, None, None, kids)

\* elem.find(name): the first direct child with that tag, None when there is none
Find(elem, name) ==
    LET hits == SelectSeq(elem.kids, LAMBDA k : k.tag = name)
    IN  IF hits = <<>> THEN None ELSE Some(hits[1])

\* the element and its descendants in document order (Element.iter)
RECURSIVE Iter(_)
Iter(elem) == <<elem>> \o Flatten([i \in 1..Len(elem.kids) |-> Iter(elem.kids[i])])

\* root.findall(".//tag"): the descendants with that tag, in document order
FindAll(root, tag) == SelectSeq(Tail(Iter(root)), LAMBDA e : e.tag = tag)

\* "".join(elem.itertext())
RECURSIVE InnerText(_)
InnerText(elem) ==
    (IF elem.text = None THEN "" ELSE elem.text[1])
      \o Join([i \in 1..Len(elem.kids) |-> InnerText(elem.kids[i])], "")

get_text(elem, name) ==
    LET child == Find(elem, name)
    IN  IF child # None /\ child[1].text # None THEN Some(Strip(child[1].text[1])) ELSE None

TruthWords == {"true", "1", "yes"}

bool_from(elem, child_name) ==
    LET v == get_text(elem, child_name)
    IN  IF v # None THEN ToLower(Strip(v[1])) \in TruthWords
        ELSE IF elem.Abstract # None THEN ToLower(Strip(elem.Abstract[1])) \in TruthWords
        ELSE FALSE

node_text_content(elem) == Strip(InnerText(elem))

RECURSIVE Indent(_)
Indent(n) == IF n = 0 THEN "" ELSE "  " \o Indent(n - 1)

AttrText(elem) ==
    (IF elem.Abstract = None THEN "" ELSE " Abstract=\"" \o elem.Abstract[1] \o "\"")
      \o (IF elem.Class = None THEN "" ELSE " Class=\"" \o elem.Class[1] \o "\"")

\* the lines minidom's toprettyxml writes for an element at a nesting depth
RECURSIVE PrettyLines(_, _)
PrettyLines(elem, depth) ==
    LET open == Indent(depth) \o "<" \o elem.tag \o AttrText(elem)
        txt  == IF elem.text = None THEN "" ELSE elem.text[1]
    IN  IF elem.kids = <<>> /\ txt = "" THEN << open \o "/>" >>
        ELSE IF elem.kids = <<>> THEN << open \o ">" \o txt \o "</" \o elem.tag \o ">" >>
        ELSE << open \o ">" >>
               \o (IF txt = "" THEN <<>> ELSE << Indent(depth + 1) \o txt >>)
               \o Flatten([i \in 1..Len(elem.kids) |-> PrettyLines(elem.kids[i], depth + 1)])
               \o << Indent(depth) \o "</" \o elem.tag \o ">" >>

pretty_xml_of_node(elem) ==
    Join(SelectSeq(PrettyLines(elem, 0), LAMBDA ln : Strip(ln) # ""), "\n")

\* a stable sort (list.sort, Array.prototype.sort) of s, given the strict
\* weak order of the comparison as less[i, j] for the entries s[i] and s[j]
StableSort(s, less) ==
    LET n == Len(s)
        before(j, i) == less[j, i] \/ (j < i /\ ~less[i, j])
        pos == [i \in 1..n |-> 1 + Cardinality({j \in 1..n : before(j, i)})]
    IN  [p \in 1..n |-> s[CHOOSE i \in 1..n : pos[i] = p]]

Min(a, b) == IF a < b THEN a ELSE b

\* ------------------------------------------------------------------------
\* Field summaries
\* ------------------------------------------------------------------------

BASIC_FIELD_NAMES == {"defName", "label", "description", "parentName", "abstract"}

MAX_ITEMS == 12

MAX_LEAF_CHARS == 120

MAX_TAG_NAMES == 6

\* stands for the one-character ellipsis the program appends to cut text
Ellipsis == "~"

\* MoreSuffix with the suffix written from the limit on, not above it
MoreSuffix_from_limit(n, shown) ==
    IF n >= shown THEN ", +" \o ToString(n - shown) \o " more" ELSE ""

MoreSuffix(n, shown) == IF n > shown THEN ", +" \o ToString(n - shown) \o " more" ELSE ""

_is_leaf_with_text(e) ==
    e.kids = <<>> /\ Strip(IF e.text = None THEN "" ELSE e.text[1]) # ""

summarize_child_node(node) ==
    LET kids  == node.kids
        n     == Len(kids)
        val   == Strip(IF node.text = None THEN "" ELSE node.text[1])
        listItem(k) == LET text == node_text_content(k) IN IF text # "" THEN text ELSE "(empty)"
        mapItem(k)  == k.tag \o ": " \o Strip(IF k.text = None THEN "" ELSE k.text[1])
    IN  IF kids = <<>> THEN
            IF val = "" THEN "(empty)"
            ELSE SubSeq(val, 1, Min(MAX_LEAF_CHARS, Len(val)))
                   \o (IF Len(val) > MAX_LEAF_CHARS THEN Ellipsis ELSE "")
        ELSE IF \A i \in 1..n : ToLower(kids[i].tag) = "li" THEN
            "[" \o Join([i \in 1..Min(MAX_ITEMS, n) |-> listItem(kids[i])], ", ")
                \o MoreSuffix(n, MAX_ITEMS) \o "]"
        ELSE IF \A i \in 1..n : _is_leaf_with_text(kids[i]) THEN
            "[" \o Join([i \in 1..Min(MAX_ITEMS, n) |-> mapItem(kids[i])], ", ")
                \o MoreSuffix(n, MAX_ITEMS) \o "]"
        ELSE
            "[" \o Join([i \in 1..Min(MAX_TAG_NAMES, n) |-> kids[i].tag], ", ")
                \o MoreSuffix(n, MAX_TAG_NAMES) \o "]"

\* the sort key (p["k"].lower(), len(p["v"])) of a field pair
PairLess(p, q) ==
    \/ StrLess(ToLower(p.k), ToLower(q.k))
    \/ ToLower(p.k) = ToLower(q.k) /\ Len(p.v) < Len(q.v)

extract_top_level_fields(defnode) ==
    LET kept  == SelectSeq(defnode.kids, LAMBDA child : child.tag \notin BASIC_FIELD_NAMES)
        pairs == [i \in 1..Len(kept) |-> [k |-> kept[i].tag, v |-> summarize_child_node(kept[i])]]
    IN  StableSort(pairs, [i, j \in 1..Len(pairs) |-> PairLess(pairs[i], pairs[j])])

\* ------------------------------------------------------------------------
\* Files and extraction
\* ------------------------------------------------------------------------

\* the directory the script runs in (root_data)
root_data == "/Data"

\* an XML file of the data directory: the source folder it is under, its
\* folder and stem under the source, whether ET.parse accepts it, its root
XmlFile(source, dir, stem, wellFormed, root) ==
    [source |-> source, dir |-> dir, stem |-> stem, wellFormed |-> wellFormed, root |-> root]

relPathOf(f) == (IF f.dir = "" THEN "" ELSE f.dir \o "/") \o f.stem \o ".xml"

filePathOf(f) == root_data \o "/" \o f.source \o "/" \o relPathOf(f)

ParseFailure(f) ==
    [parseError |-> "not well-formed", filePath |-> filePathOf(f), source |-> f.source]

IsFailure(r) == "parseError" \in DOMAIN r

Truthy(o) == o # None /\ o[1] # ""

RecId(source, def_type, def_name) == source \o "|" \o def_type \o ":" \o def_name

DefRecord(f, defnode) ==
    LET def_name == get_text(defnode, "defName")
    IN  [ id          |-> RecId(f.source, defnode.tag, def_name[1]),
          kind        |-> "def",
          defType     |-> defnode.tag,
          defName     |-> def_name[1],
          label       |-> get_text(defnode, "label"),
          description |-> get_text(defnode, "description"),
          parentName  |-> get_text(defnode, "parentName"),
          abstract    |-> bool_from(defnode, "abstract"),
          filePath    |-> filePathOf(f),
          relPath     |-> relPathOf(f),
          source      |-> f.source,
          rawXml      |-> pretty_xml_of_node(defnode),
          textBlob    |-> Strip(InnerText(defnode)),
          kvPairs     |-> extract_top_level_fields(defnode) ]

extract_defs_from_file(f) ==
    IF ~f.wellFormed THEN << ParseFailure(f) >>
    ELSE IF f.root.tag # "Defs" THEN <<>>
    ELSE LET named == SelectSeq(f.root.kids, LAMBDA defnode : Truthy(get_text(defnode, "defName")))
         IN  [i \in 1..Len(named) |-> DefRecord(f, named[i])]

\* the positions (child index paths) of the descendants of an element, in
\* document order; a position is the identity of an element
RECURSIVE PathsBelow(_, _)
PathsBelow(elem, at) ==
    Flatten([i \in 1..Len(elem.kids) |->
                << Append(at, i) >> \o PathsBelow(elem.kids[i], Append(at, i))])

RECURSIVE ElemAt(_, _)
ElemAt(elem, path) == IF path = <<>> THEN elem ELSE ElemAt(elem.kids[Head(path)], Tail(path))

\* root.findall(".//Operation")
FindOperations(root) ==
    SelectSeq(PathsBelow(root, <<>>), LAMBDA at : ElemAt(root, at).tag = "Operation")

\* root.findall(".//li[@Class]")
FindClassItems(root) ==
    SelectSeq(PathsBelow(root, <<>>),
              LAMBDA at : ElemAt(root, at).tag = "li" /\ ElemAt(root, at).Class # None)

\* the first occurrence of each element of a sequence, in order
RECURSIVE Dedup(_)
Dedup(s) ==
    IF s = <<>> THEN <<>>
    ELSE LET front == Dedup(SubSeq(s, 1, Len(s) - 1))
             last  == s[Len(s)]
         IN  IF \E i \in 1..Len(front) : front[i] = last THEN front ELSE Append(front, last)

MAX_XPATHS == 3

_first_texts(root, tag) ==
    LET vals == SelectSeq([i \in 1..Len(FindAll(root, tag)) |->
                              Strip(IF FindAll(root, tag)[i].text = None THEN ""
                                    ELSE FindAll(root, tag)[i].text[1])],
                          LAMBDA txt : txt # "")
    IN  SubSeq(vals, 1, Min(MAX_XPATHS, Len(vals)))

PatchRecord(f, opnode, idx) ==
    LET stripped == Strip(IF opnode.Class = None THEN "" ELSE opnode.Class[1])
        op_class == IF stripped # "" THEN stripped ELSE "PatchOperation"
        def_name == f.stem \o "#" \o Pad4(idx)
        xpaths   == _first_texts(opnode, "xpath")
    IN  [ id          |-> RecId(f.source, op_class, def_name),
          kind        |-> "patch",
          defType     |-> op_class,
          defName     |-> def_name,
          label       |-> Some(IF xpaths # <<>> THEN xpaths[1] ELSE op_class),
          description |-> None,
          parentName  |-> None,
          abstract    |-> FALSE,
          filePath    |-> filePathOf(f),
          relPath     |-> relPathOf(f),
          source      |-> f.source,
          rawXml      |-> pretty_xml_of_node(opnode),
          textBlob    |-> Strip(InnerText(opnode)),
          kvPairs     |-> extract_top_level_fields(opnode) ]

extract_patches_from_file(f) ==
    IF ~f.wellFormed THEN << ParseFailure(f) >>
    ELSE LET ops      == FindOperations(f.root) \o FindClassItems(f.root)
             uniq_ops == Dedup(ops)
             is_patch_like == f.root.tag = "Patch" \/ FindOperations(f.root) # <<>>
                                \/ FindClassItems(f.root) # <<>>
         IN  IF ~is_patch_like \/ uniq_ops = <<>> THEN <<>>
             ELSE [i \in 1..Len(uniq_ops) |-> PatchRecord(f, ElemAt(f.root, uniq_ops[i]), i)]

\* ExtractFile with the patch strategy run whatever the definitions strategy gave
ExtractFile_both_strategies(f) ==
    extract_defs_from_file(f) \o extract_patches_from_file(f)

\* ExtractFile with the patch strategy run as well after a parse failure
ExtractFile_retry_failure(f) ==
    LET recs_defs == extract_defs_from_file(f)
    IN  IF recs_defs # <<>> /\ ~IsFailure(recs_defs[1]) THEN recs_defs
        ELSE recs_defs \o extract_patches_from_file(f)

\* what the body of main's loop adds to records for one file
ExtractFile(f) ==
    LET recs_defs == extract_defs_from_file(f)
    IN  IF recs_defs # <<>> THEN recs_defs ELSE extract_patches_from_file(f)

\* ------------------------------------------------------------------------
\* The XML files the model scans
\* ------------------------------------------------------------------------

\* <tag><defName>name</defName>[<parentName>parent</parentName>] extra </tag>
DefNode(tag, abstract, name, parent, extra) ==
    El(tag, None, abstract, None,
       << Leaf("defName", name) >>
         \o (IF parent = None THEN <<>> ELSE << Leaf("parentName", parent[1]) >>)
         \o extra)

CompsNode == Node("comps", << El("li", Some("CompProperties_Forbiddable"), None, None, <<>>) >>)

AddOperation(xpath) ==
    El("Operation", Some("PatchOperationAdd"), None, None,
       << Leaf("xpath", xpath), Node("value", << Leaf("label", "Gun") >>) >>)

\* Core/ThingDefs/Base.xml: an abstract base and a def that inherits from it
CoreBase ==
    XmlFile("Core", "ThingDefs", "Base", TRUE,
        Node("Defs", << DefNode("ThingDef", Some("True"), "Base", None, <<>>),
                        DefNode("ThingDef", None, "Gun", Some("Base"),
                                << Leaf("label", "Pistol"), CompsNode >>) >>))

\* Core/ThingDefs/Things.xml: defines ThingDef Base a second time in Core, under a parent
CoreThings ==
    XmlFile("Core", "ThingDefs", "Things", TRUE,
        Node("Defs", << DefNode("ThingDef", None, "Base", Some("Sword"),
                                << Leaf("label", "gun core") >>) >>))

\* Royalty/ThingDefs/Base.xml: a Base whose parent is Gun
RoyaltyBase ==
    XmlFile("Royalty", "ThingDefs", "Base", TRUE,
        Node("Defs", << DefNode("ThingDef", None, "Base", Some("Gun"),
                                << Leaf("description", "As in Core") >>) >>))

\* Royalty/ThingDefs/Stats.xml: defs with numbers as values and in labels
RoyaltyStats ==
    XmlFile("Royalty", "ThingDefs", "Stats", TRUE,
        Node("Defs", << DefNode("ThingDef", None, "Bow", Some("Base"),
                                << Leaf("label", "Bow 10"), Leaf("mass", "10") >>),
                        DefNode("ThingDef", None, "Axe", None,
                                << Leaf("label", "Bow 9"), Leaf("mass", "9.5") >>),
                        DefNode("ThingDef", None, "Gun", None,
                                << Leaf("label", "pistol"), Leaf("mass", "10") >>) >>))

\* Royalty/ThingDefs/Sword.xml: a def whose parent Base is looked up across sources
RoyaltySword ==
    XmlFile("Royalty", "ThingDefs", "Sword", TRUE,
        Node("Defs", << DefNode("ThingDef", None, "Sword", Some("Base"),
                                << Leaf("description", "A Sword") >>) >>))

\* Anomaly/ThingDefs/Base.xml: Base and Gun name each other as parent
AnomalyBase ==
    XmlFile("Anomaly", "ThingDefs", "Base", TRUE,
        Node("Defs", << DefNode("ThingDef", None, "Base", Some("Gun"), <<>>),
                        DefNode("ThingDef", None, "Gun", Some("Base"), <<>>) >>))

\* Biotech/ThingDefs/Base.xml: a Base that names itself as parent, and a def
\* whose parent exists nowhere
BiotechBase ==
    XmlFile("Biotech", "ThingDefs", "Base", TRUE,
        Node("Defs", << DefNode("ThingDef", None, "Base", Some("Base"), <<>>),
                        DefNode("ThingDef", None, "Gene", Some("Nothing"), <<>>) >>))

\* Core/Patches/Fix.xml: a patch file with two operations
CoreFix ==
    XmlFile("Core", "Patches", "Fix", TRUE,
        Node("Patch", << AddOperation("Defs/ThingDef"), AddOperation("Defs/StatDef") >>))

\* Core/ThingDefs/Odd.xml: a def whose category and parent name are those of
\* the first patch record of Core/Patches/Fix.xml
CoreOdd ==
    XmlFile("Core", "ThingDefs", "Odd", TRUE,
        Node("Defs", << DefNode("PatchOperationAdd", None, "Odd", Some("Fix#0001"), <<>>) >>))

\* Core/Patches/Sequence.xml: a sequence operation with two operations in its
\* list, followed by one more operation
CoreSequence ==
    XmlFile("Core", "Patches", "Sequence", TRUE,
        Node("Patch",
             << El("Operation", Some("PatchOperationSequence"), None, None,
                   << Node("operations",
                           << El("li", Some("PatchOperationTest"), None, None,
                                 << Leaf("xpath", "Defs/ThingDef") >>),
                              El("li", Some("PatchOperationRemove"), None, None,
                                 << Leaf("xpath", "Defs/StatDef") >>) >>) >>),
                AddOperation("Defs/ThingDef") >>))

\* Core/Patches/Tools.xml: an operation that adds a list item with a Class,
\* the item having a label child among its children
CoreTools ==
    XmlFile("Core", "Patches", "Tools", TRUE,
        Node("Patch",
             << El("Operation", Some("PatchOperationAdd"), None, None,
                   << Leaf("xpath", "Defs/ThingDef/tools"),
                      Node("value",
                           << El("li", Some("ToolCE"), None, None,
                                 << Leaf("label", "stock"), Leaf("power", "8"),
                                    Node("capacities", << Leaf("li", "Blunt") >>) >>) >>) >>) >>))

\* Core/Patches/More/Fix.xml: a second patch file of the same stem in Core
CoreMoreFix ==
    XmlFile("Core", "Patches/More", "Fix", TRUE,
        Node("Patch", << AddOperation("Defs/ThingDef") >>))

\* Royalty/ThingDefs/Broken.xml: not well-formed XML
RoyaltyBroken ==
    XmlFile("Royalty", "ThingDefs", "Broken", FALSE, Node("Defs", <<>>))

\* Royalty/ThingDefs/Stub.xml: a Defs file whose only def has no defName
RoyaltyStub ==
    XmlFile("Royalty", "ThingDefs", "Stub", TRUE,
        Node("Defs", << El("ThingDef", None, None, None,
                           << Leaf("label", "stub"), CompsNode >>) >>))

\* Core/Languages/Keys.xml: neither a Defs file nor a patch file
CoreKeys ==
    XmlFile("Core", "Languages", "Keys", TRUE,
        Node("LanguageData", << Leaf("Gun.label", "gun") >>))

ChainName(k) == "C" \o Pad4(k)

\* Core/ThingDefs/Chain.xml: ChainLen defs, each the child of the next; the
\* last one is a root or names itself as its parent
ChainFile(stem, lastParent) ==
    XmlFile("Core", "ThingDefs", stem, TRUE,
        Node("Defs", [k \in 1..ChainLen |->
                         DefNode("ThingDef", None, ChainName(k),
                                 IF k < ChainLen THEN Some(ChainName(k + 1)) ELSE lastParent,
                                 <<>>)]))

SmallFileList ==
    << CoreBase, CoreThings, RoyaltyBase, RoyaltySword, AnomalyBase, BiotechBase, CoreFix,
       CoreMoreFix, RoyaltyBroken, RoyaltyStub, CoreKeys, CoreOdd >>

LongFileList ==
    << ChainFile("Chain", None), ChainFile("Loop", Some(ChainName(ChainLen))) >>

AllFiles == SmallFileList \o LongFileList

\* the small files are combined freely; each long chain file is scanned as a
\* data directory of its own
SmallFiles == 1..Len(SmallFileList)

LongFiles == (Len(SmallFileList) + 1)..Len(AllFiles)

\* the data directories the model scans: sets of files, by position in AllFiles
DataRoots ==
    {fs \in SUBSET SmallFiles : Cardinality(fs) <= MaxFiles} \cup {{f} : f \in LongFiles}

\* ------------------------------------------------------------------------
\* Parent chains
\* ------------------------------------------------------------------------

\* the stopping depth of the chain walk
MAX_DEPTH == 100

CycleSentinel == "(stopped: cycle)"

DepthSentinel == "(stopped: depth>100)"

MissingLabel(cur_type, parent_name) == cur_type \o ":" \o parent_name \o " (missing)"

ParentLabel(parent) ==
    parent.defType \o ":" \o parent.defName \o " [" \o parent.source \o "]"

EmptyIndex == [src \in {} |-> <<>>]

\* BuildIndex with the patch records indexed like the def records
BuildIndex_with_patches(recs, defs) ==
    LET real    == 1..Len(defs)
        keyOf(n) == << recs[defs[n]].defType, recs[defs[n]].defName >>
        of(src) == {n \in real : recs[defs[n]].source = src}
        last(ns) == CHOOSE n \in ns : \A m \in ns : m <= n
    IN  [src \in {recs[defs[n]].source : n \in real} |->
            [key \in {keyOf(n) : n \in of(src)} |->
                defs[last({n \in of(src) : keyOf(n) = key})]]]

\* the index after "for d in defs: index[d["source"]][key] = d": of the def
\* records with one source and one key the last of defs stays; recs is the
\* list of record objects and defs holds positions in it, so the index refers
\* to the record objects themselves
BuildIndex(recs, defs) ==
    LET real    == {n \in 1..Len(defs) : recs[defs[n]].kind = "def"}
        keyOf(n) == << recs[defs[n]].defType, recs[defs[n]].defName >>
        of(src) == {n \in real : recs[defs[n]].source = src}
        last(ns) == CHOOSE n \in ns : \A m \in ns : m <= n
    IN  [src \in {recs[defs[n]].source : n \in real} |->
            [key \in {keyOf(n) : n \in of(src)} |->
                defs[last({n \in of(src) : keyOf(n) = key})]]]

\* sorted(index.keys())
SortedKeys(index) ==
    LET keys == DOMAIN index
        rank(k) == 1 + Cardinality({j \in keys : StrLess(j, k)})
    IN  [p \in 1..Cardinality(keys) |-> CHOOSE k \in keys : rank(k) = p]

\* resolve_parent with Core looked up before the current source
resolve_parent_core_first(index, cur_source, def_type, parent_name) ==
    LET key    == << def_type, parent_name >>
        has(s) == s \in DOMAIN index /\ key \in DOMAIN index[s]
        others == SelectSeq(SortedKeys(index),
                            LAMBDA src : src \notin {cur_source, "Core"} /\ has(src))
    IN  IF has("Core") THEN index["Core"][key]
        ELSE IF has(cur_source) THEN index[cur_source][key]
        ELSE IF others # <<>> THEN index[others[1]][key]
        ELSE 0

\* the position in recs of the parent record, 0 for None
resolve_parent(index, cur_source, def_type, parent_name) ==
    LET key    == << def_type, parent_name >>
        has(s) == s \in DOMAIN index /\ key \in DOMAIN index[s]
        others == SelectSeq(SortedKeys(index),
                            LAMBDA src : src \notin {cur_source, "Core"} /\ has(src))
    IN  IF has(cur_source) THEN index[cur_source][key]
        ELSE IF has("Core") THEN index["Core"][key]
        ELSE IF others # <<>> THEN index[others[1]][key]
        ELSE 0

\* StartWalk with the chains begun from the lists the record already carries
StartWalk_keeps_chains(d) ==
    [ chain_ids    |-> IF "parentsChainIds" \in DOMAIN d THEN d.parentsChainIds ELSE <<>>,
      chain_labels |-> IF "parentsChainLabels" \in DOMAIN d THEN d.parentsChainLabels ELSE <<>>,
      seen         |-> {},
      cur_type     |-> d.defType,
      cur_source   |-> d.source,
      parent_name  |-> d.parentName,
      steps        |-> 0,
      broke        |-> FALSE ]

\* the local variables of the walk as the loop over defs sets them for d
StartWalk(d) ==
    [ chain_ids    |-> <<>>,
      chain_labels |-> <<>>,
      seen         |-> {},
      cur_type     |-> d.defType,
      cur_source   |-> d.source,
      parent_name  |-> d.parentName,
      steps        |-> 0,
      broke        |-> FALSE ]

\* while parent_name:
WalkContinues(w) == ~w.broke /\ Truthy(w.parent_name)

\* LoopBody without the test of cycle_key against seen
LoopBody_no_cycle_test(recs, index, w) ==
    LET at     == resolve_parent(index, w.cur_source, w.cur_type, w.parent_name[1])
        parent == recs[at]
        steps  == w.steps + 1
    IN  IF at = 0 THEN
            [w EXCEPT !.chain_labels = Append(@, MissingLabel(w.cur_type, w.parent_name[1])),
                      !.broke = TRUE]
        ELSE
            [w EXCEPT !.chain_ids = Append(@, parent.id),
                      !.chain_labels = IF steps > MAX_DEPTH
                                       THEN Append(Append(@, ParentLabel(parent)), DepthSentinel)
                                       ELSE Append(@, ParentLabel(parent)),
                      !.parent_name = parent.parentName,
                      !.cur_type = parent.defType,
                      !.cur_source = parent.source,
                      !.steps = steps,
                      !.broke = steps > MAX_DEPTH]

\* LoopBody with the name of a parent that is not found kept among the ids
LoopBody_missing_id(recs, index, w) ==
    LET cycle_key == << w.cur_source, w.cur_type, w.parent_name[1] >>
        at        == resolve_parent(index, w.cur_source, w.cur_type, w.parent_name[1])
        parent    == recs[at]
        steps     == w.steps + 1
    IN  IF cycle_key \in w.seen THEN
            [w EXCEPT !.chain_labels = Append(@, CycleSentinel), !.broke = TRUE]
        ELSE IF at = 0 THEN
            [w EXCEPT !.seen = @ \cup {cycle_key},
                      !.chain_ids = Append(@, RecId(w.cur_source, w.cur_type, w.parent_name[1])),
                      !.chain_labels = Append(@, MissingLabel(w.cur_type, w.parent_name[1])),
                      !.broke = TRUE]
        ELSE
            [w EXCEPT !.seen = @ \cup {cycle_key},
                      !.chain_ids = Append(@, parent.id),
                      !.chain_labels = IF steps > MAX_DEPTH
                                       THEN Append(Append(@, ParentLabel(parent)), DepthSentinel)
                                       ELSE Append(@, ParentLabel(parent)),
                      !.parent_name = parent.parentName,
                      !.cur_type = parent.defType,
                      !.cur_source = parent.source,
                      !.steps = steps,
                      !.broke = steps > MAX_DEPTH]

\* one pass through the body of the while loop
LoopBody(recs, index, w) ==
    LET cycle_key == << w.cur_source, w.cur_type, w.parent_name[1] >>
        at        == resolve_parent(index, w.cur_source, w.cur_type, w.parent_name[1])
        parent    == recs[at]
        steps     == w.steps + 1
    IN  IF cycle_key \in w.seen THEN
            [w EXCEPT !.chain_labels = Append(@, CycleSentinel), !.broke = TRUE]
        ELSE IF at = 0 THEN
            [w EXCEPT !.seen = @ \cup {cycle_key},
                      !.chain_labels = Append(@, MissingLabel(w.cur_type, w.parent_name[1])),
                      !.broke = TRUE]
        ELSE
            [w EXCEPT !.seen = @ \cup {cycle_key},
                      !.chain_ids = Append(@, parent.id),
                      !.chain_labels = IF steps > MAX_DEPTH
                                       THEN Append(Append(@, ParentLabel(parent)), DepthSentinel)
                                       ELSE Append(@, ParentLabel(parent)),
                      !.parent_name = parent.parentName,
                      !.cur_type = parent.defType,
                      !.cur_source = parent.source,
                      !.steps = steps,
                      !.broke = steps > MAX_DEPTH]

\* WithChains that clears the parent name of a record with a resolved parent
WithChains_clears_parent(d, chain_ids, chain_labels) ==
    [parentsChainIds |-> chain_ids, parentsChainLabels |-> chain_labels,
     parentName |-> IF chain_ids = <<>> THEN d.parentName ELSE None] @@ d

\* d["parentsChainIds"] = ...; d["parentsChainLabels"] = ...
WithChains(d, chain_ids, chain_labels) ==
    [parentsChainIds |-> chain_ids, parentsChainLabels |-> chain_labels] @@ d

\* the walk of one record run to its end
RECURSIVE RunWalk(_, _, _)
RunWalk(recs, index, w) ==
    IF WalkContinues(w)
    THEN TheOne({RunWalk(recs, index, next) : next \in {LoopBody(recs, index, w)}})
    ELSE w

\* the loop "for d in defs" of build_parent_chains over the first n entries
RECURSIVE ResolveFirst(_, _, _, _)
ResolveFirst(recs, defs, index, n) ==
    IF n = 0 THEN recs
    ELSE TheOne({
            LET d == prev[defs[n]]
            IN  IF d.kind # "def"
                THEN [prev EXCEPT ![defs[n]] = WithChains(d, <<>>, <<>>)]
                ELSE TheOne({[prev EXCEPT ![defs[n]] = WithChains(d, w.chain_ids, w.chain_labels)] :
                                w \in {RunWalk(prev, index, StartWalk(d))}}) :
            prev \in {ResolveFirst(recs, defs, index, n - 1)}})

\* build_parent_chains(defs) as a whole: the record objects after the call
build_parent_chains(recs, defs) ==
    TheOne({ResolveFirst(recs, defs, index, Len(defs)) : index \in {BuildIndex(recs, defs)}})

Range(s) == {s[i] : i \in 1..Len(s)}

\* the positions in recs, in order, of the parse failures (failure = TRUE) or
\* of the records (failure = FALSE)
Positions(recs, failure) ==
    SelectSeq([i \in 1..Len(recs) |-> i], LAMBDA i : IsFailure(recs[i]) = failure)

\* main as a whole for the files read in the order scan: payload["records"]
MainPayload(scan) ==
    TheOne({
        LET defs   == Positions(recs, FALSE)
            errors == Positions(recs, TRUE)
        IN  TheOne({[i \in 1..(Len(defs) + Len(errors)) |-> resolved[(defs \o errors)[i]]] :
                        resolved \in {build_parent_chains(recs, defs)}}) :
        recs \in {Flatten([i \in 1..Len(scan) |-> ExtractFile(scan[i])])}})

\* ------------------------------------------------------------------------
\* The browser: search and filters
\* ------------------------------------------------------------------------

\* the characters of names in the order of the root collation: punctuation,
\* digits, letters; a letter and its capital share a place
CollationOrder == "\n _-:.[]/#|0123456789abcdefghijklmnopqrstuvwxyz"

CollationTable == [c \in CharsOf(CollationOrder) |-> IndexIn(c, CollationOrder)]

CollationRank(c) == CollationTable[LowerChar(c)]

\* the first level of String.prototype.localeCompare: letters without case
RECURSIVE PrimaryCompare(_, _)
PrimaryCompare(a, b) ==
    IF a = "" /\ b = "" THEN 0
    ELSE IF a = "" THEN -1
    ELSE IF b = "" THEN 1
    ELSE IF CollationRank(Head(a)) < CollationRank(Head(b)) THEN -1
    ELSE IF CollationRank(Head(a)) > CollationRank(Head(b)) THEN 1
    ELSE PrimaryCompare(Tail(a), Tail(b))

\* the case level, for texts equal on the first level: lower case first
RECURSIVE CaseCompare(_, _)
CaseCompare(a, b) ==
    IF a = "" \/ b = "" THEN 0
    ELSE IF Head(a) = Head(b) THEN CaseCompare(Tail(a), Tail(b))
    ELSE IF LowerChar(Head(a)) = Head(a) THEN -1
    ELSE 1

\* a.localeCompare(b): negative, zero or positive
localeCompare(a, b) ==
    LET primary == PrimaryCompare(a, b)
    IN  IF primary # 0 THEN primary ELSE CaseCompare(a, b)

\* s.split(/\s+/).filter(Boolean): the words of a text
RECURSIVE Words(_, _)
Words(s, word) ==
    IF s = "" THEN (IF word = "" THEN <<>> ELSE << word >>)
    ELSE IF IsSpace(Head(s)) THEN (IF word = "" THEN <<>> ELSE << word >>) \o Words(Tail(s), "")
    ELSE Words(Tail(s), word \o Head(s))

tokenize(s) == Words(ToLower(Strip(s)), "")

OrEmpty(o) == IF o = None THEN "" ELSE o[1]

\* matchRecord with a record shown when any one of the terms occurs
matchRecord_any_term(rec, terms, sourceFilter, typeFilter) ==
    LET hay == ToLower(rec.source \o " " \o rec.defType \o " " \o rec.defName \o " "
                         \o OrEmpty(rec.label) \o " " \o OrEmpty(rec.description) \o " "
                         \o rec.textBlob \o " " \o rec.filePath \o " " \o rec.rawXml)
    IN  IF rec.source \notin sourceFilter THEN FALSE
        ELSE IF rec.defType \notin typeFilter THEN FALSE
        ELSE IF terms = <<>> THEN TRUE
        ELSE \E i \in 1..Len(terms) : Includes(hay, terms[i])

matchRecord(rec, terms, sourceFilter, typeFilter) ==
    LET hay == ToLower(rec.source \o " " \o rec.defType \o " " \o rec.defName \o " "
                         \o OrEmpty(rec.label) \o " " \o OrEmpty(rec.description) \o " "
                         \o rec.textBlob \o " " \o rec.filePath \o " " \o rec.rawXml)
    IN  IF rec.source \notin sourceFilter THEN FALSE
        ELSE IF rec.defType \notin typeFilter THEN FALSE
        ELSE IF terms = <<>> THEN TRUE
        ELSE \A i \in 1..Len(terms) : Includes(hay, terms[i])

\* the characters encodeURIComponent escapes, among those of the model's
\* texts, and their escapes in the same order
EscapedChars == "\n \"#%/:<=>[]|"

Escapes ==
    << "%0A", "%20", "%22", "%23", "%25", "%2F", "%3A", "%3C", "%3D", "%3E", "%5B", "%5D", "%7C" >>

EscapeTable == [c \in CharsOf(EscapedChars) |-> Escapes[IndexIn(c, EscapedChars)]]

\* encodeURIComponent, one half of the text after the other
RECURSIVE encodeURIComponent(_)
encodeURIComponent(s) ==
    IF s = "" THEN ""
    ELSE IF Len(s) = 1 THEN (IF s \in DOMAIN EscapeTable THEN EscapeTable[s] ELSE s)
    ELSE encodeURIComponent(SubSeq(s, 1, Len(s) \div 2))
           \o encodeURIComponent(SubSeq(s, Len(s) \div 2 + 1, Len(s)))

\* decodeURIComponent on a text in which every % begins one of the escapes
RECURSIVE decodeURIComponent(_)
decodeURIComponent(s) ==
    IF s = "" THEN ""
    ELSE IF Head(s) = "%" /\ Len(s) >= 3 /\ SubSeq(s, 1, 3) \in Range(Escapes)
         THEN CharAt(EscapedChars, CHOOSE i \in 1..Len(Escapes) : Escapes[i] = SubSeq(s, 1, 3))
                \o decodeURIComponent(SubSeq(s, 4, Len(s)))
    ELSE Head(s) \o decodeURIComponent(Tail(s))

\* defs.find(d => d.id === id): the position of the first record with that
\* id, 0 when there is none
FindById(recs, id) ==
    IF \E p \in 1..Len(recs) : recs[p].id = id
    THEN CHOOSE p \in 1..Len(recs) : recs[p].id = id /\ \A q \in 1..(p - 1) : recs[q].id # id
    ELSE 0

\* the records the page works on: DATA.records without the parse failures
JsDefs(data) == SelectSeq(data, LAMBDA d : ~IsFailure(d))

\* the comparator of the rows of a group with the source compared first
RowLess_source_first(a, b) ==
    LET c == localeCompare(a.source, b.source)
    IN  IF c # 0 THEN c < 0 ELSE localeCompare(a.defName, b.defName) < 0

\* the comparator of the rows of a group, as a strict order
RowLess(a, b) ==
    LET c == localeCompare(a.defName, b.defName)
    IN  IF c # 0 THEN c < 0 ELSE localeCompare(a.source, b.source) < 0

TypeLess(a, b) == localeCompare(a, b) < 0

\* renderResults: the header counts, the groups as rendered, and groupOpen
\* as the call leaves it; a row is the position in the page's records of the
\* record it shows
renderResults(data, q, sourceFilter, typeFilter, groupOpen) ==
    TheOne({
        TheOne({
            TheOne({
                LET ofType(t) == SelectSeq(filtered, LAMBDA i : recs[i].defType = t)
                    items(t)  == TheOne({StableSort(rows, [i, j \in 1..Len(rows) |->
                                                              RowLess(recs[rows[i]], recs[rows[j]])]) :
                                            rows \in {ofType(t)}})
                    open      == [t \in DOMAIN groupOpen \cup Range(sortedTypes) |->
                                     IF t \in DOMAIN groupOpen THEN groupOpen[t] ELSE TRUE]
                IN  [ header    |-> [records |-> Len(filtered), groups |-> Len(sortedTypes)],
                      groups    |-> [g \in 1..Len(sortedTypes) |->
                                        TheOne({[ type  |-> sortedTypes[g],
                                                  count |-> Len(rows),
                                                  open  |-> open[sortedTypes[g]],
                                                  rows  |-> rows ] :
                                                    rows \in {items(sortedTypes[g])}})],
                      groupOpen |-> open ] :
                sortedTypes \in
                    {TheOne({StableSort(keys, [i, j \in 1..Len(keys) |-> TypeLess(keys[i], keys[j])]) :
                                keys \in {Dedup([i \in 1..Len(filtered) |-> recs[filtered[i]].defType])}})}}) :
            filtered \in
                {TheOne({SelectSeq([i \in 1..Len(recs) |-> i],
                                   LAMBDA i : matchRecord(recs[i], terms, sourceFilter, typeFilter)) :
                            terms \in {tokenize(q)}})}}) :
        recs \in {JsDefs(data)}})

\* ------------------------------------------------------------------------
\* The browser: highlighting
\* ------------------------------------------------------------------------

StartsWith(s, p) == Len(s) >= Len(p) /\ SubSeq(s, 1, Len(p)) = p

\* the characters escapeHtml replaces and their entities, in the same order
HtmlSpecials == "&<>\"'"

HtmlEntities == << "&amp;", "&lt;", "&gt;", "&quot;", "&#39;" >>

RECURSIVE escapeHtml(_)
escapeHtml(s) ==
    IF s = "" THEN ""
    ELSE (IF IndexIn(Head(s), HtmlSpecials) # 0
          THEN HtmlEntities[IndexIn(Head(s), HtmlSpecials)]
          ELSE Head(s)) \o escapeHtml(Tail(s))

\* html.replace(new RegExp(`(${escapeRegExp(t)})`, 'ig'), '<mark>$1</mark>'):
\* the matches of the literal t, letter case ignored, from left to right and
\* without overlap
RECURSIVE ReplaceWithMark(_, _)
ReplaceWithMark(html, t) ==
    IF Len(html) < Len(t) THEN html
    ELSE IF ToLower(SubSeq(html, 1, Len(t))) = ToLower(t)
         THEN "<mark>" \o SubSeq(html, 1, Len(t)) \o "</mark>"
                \o ReplaceWithMark(SubSeq(html, Len(t) + 1, Len(html)), t)
    ELSE Head(html) \o ReplaceWithMark(Tail(html), t)

\* the loop of highlightText over the terms, from the k-th on
RECURSIVE HighlightFrom(_, _, _)
HighlightFrom(html, terms, k) ==
    IF k > Len(terms) THEN html
    ELSE IF terms[k] = "" THEN HighlightFrom(html, terms, k + 1)
    ELSE HighlightFrom(ReplaceWithMark(html, terms[k]), terms, k + 1)

highlightText(text, terms) == HighlightFrom(escapeHtml(text), terms, 1)

\* element.innerHTML = html, for html made of text, the five entities and
\* mark tags: the text shown and the mark elements as ranges of its
\* characters; open holds the starts of the mark elements not yet closed
RECURSIVE ParseMarks(_, _, _, _)
ParseMarks(html, shown, open, marks) ==
    IF html = ""
    THEN [ text  |-> shown,
           marks |-> marks \o [i \in 1..Len(open) |-> [from |-> open[i], to |-> Len(shown)]] ]
    ELSE IF StartsWith(html, "<mark>")
    THEN ParseMarks(SubSeq(html, 7, Len(html)), shown, open \o << Len(shown) + 1 >>, marks)
    ELSE IF StartsWith(html, "</mark>")
    THEN IF open = <<>>
         THEN ParseMarks(SubSeq(html, 8, Len(html)), shown, open, marks)
         ELSE ParseMarks(SubSeq(html, 8, Len(html)), shown, SubSeq(open, 1, Len(open) - 1),
                         marks \o << [from |-> open[Len(open)], to |-> Len(shown)] >>)
    ELSE IF \E e \in 1..Len(HtmlEntities) : StartsWith(html, HtmlEntities[e])
    THEN TheOne({ParseMarks(SubSeq(html, Len(HtmlEntities[e]) + 1, Len(html)),
                            shown \o CharAt(HtmlSpecials, e), open, marks) :
                    e \in {CHOOSE n \in 1..Len(HtmlEntities) : StartsWith(html, HtmlEntities[n])}})
    ELSE ParseMarks(Tail(html), shown \o Head(html), open, marks)

\* the least number of a non-empty set of numbers
MinOf(S) == CHOOSE x \in S : \A y \in S : x <= y

\* lower.indexOf(t, pos), with positions counted from 1 and 0 for "not found"
IndexFrom(lower, t, pos) ==
    IF \E i \in pos..(Len(lower) - Len(t) + 1) : SubSeq(lower, i, i + Len(t) - 1) = t
    THEN MinOf({i \in pos..(Len(lower) - Len(t) + 1) : SubSeq(lower, i, i + Len(t) - 1) = t})
    ELSE 0

\* the while loop of markTermsInElement on one text node, from pos on: the
\* children appended to frag, each a text node or a mark element
RECURSIVE MarkPieces(_, _, _)
MarkPieces(text, validTerms, pos) ==
    LET idx   == [k \in 1..Len(validTerms) |-> IndexFrom(ToLower(text), ToLower(validTerms[k]), pos)]
        found == {k \in 1..Len(validTerms) : idx[k] # 0}
    IN  IF found = {}
        THEN IF pos > 1 /\ pos <= Len(text)
             THEN << [mark |-> FALSE, text |-> SubSeq(text, pos, Len(text))] >>
             ELSE <<>>
        ELSE LET bestIdx  == MinOf({idx[k] : k \in found})
                 bestTerm == validTerms[MinOf({k \in found : idx[k] = bestIdx})]
             IN  (IF bestIdx > pos
                  THEN << [mark |-> FALSE, text |-> SubSeq(text, pos, bestIdx - 1)] >>
                  ELSE <<>>)
                   \o << [mark |-> TRUE, text |-> SubSeq(text, bestIdx, bestIdx + Len(bestTerm) - 1)] >>
                   \o MarkPieces(text, validTerms, bestIdx + Len(bestTerm))

\* markTermsInElement on an element given by the values of its text nodes in
\* document order: for each text node, the nodes that stand in its place
markTermsInElement(nodes, terms) ==
    LET validTerms == SelectSeq(terms, LAMBDA t : t # "")
    IN  [n \in 1..Len(nodes) |->
            IF validTerms = <<>> \/ Strip(nodes[n]) = "" \/ MarkPieces(nodes[n], validTerms, 1) = <<>>
            THEN << [mark |-> FALSE, text |-> nodes[n]] >>
            ELSE MarkPieces(nodes[n], validTerms, 1)]

\* the text nodes of the element highlightXML builds from <tag>text</tag>
XmlTextNodes(tag, text) == << "<", tag, ">", text, "</", tag, ">" >>

\* ------------------------------------------------------------------------
\* The browser: values of a tag
\* ------------------------------------------------------------------------

\* the lines of a text, split at its newlines
SplitLines(s) ==
    TheOne({
        LET n  == Cardinality(nl)
            at == [k \in 1..n |-> CHOOSE i \in nl : Cardinality({j \in nl : j < i}) = k - 1]
        IN  [k \in 1..(n + 1) |->
                SubSeq(s, IF k = 1 THEN 1 ELSE at[k - 1] + 1, IF k = n + 1 THEN Len(s) ELSE at[k] - 1)] :
        nl \in {{i \in 1..Len(s) : CharAt(s, i) = "\n"}}})

\* one line of the XML text of a record as the parser reads it: its
\* indentation, what it is (the start tag of an element with children, an
\* element on one line, an end tag, or text), the tag name and the text in it
XmlLine(line) ==
    TheOne({
        LET tag  == SubSeq(body, 2, MinOf({i \in 2..Len(body) : CharAt(body, i) \in {" ", ">", "/"}}) - 1)
            gt   == MinOf({i \in 1..Len(body) : CharAt(body, i) = ">"})
            kind == IF ~StartsWith(body, "<") THEN "text"
                    ELSE IF StartsWith(body, "</") THEN "end"
                    ELSE IF SubSeq(body, Len(body) - 1, Len(body)) = "/>" THEN "empty"
                    ELSE IF Includes(body, "</") THEN "leaf"
                    ELSE "start"
        IN  [ indent |-> SubSeq(line, 1, Len(line) - Len(body)),
              kind   |-> kind,
              tag    |-> IF kind = "text" THEN "" ELSE IF kind = "end" THEN SubSeq(body, 3, Len(body) - 1)
                         ELSE tag,
              text   |-> IF kind = "text" THEN body
                         ELSE IF kind = "leaf" THEN SubSeq(body, gt + 1, Len(body) - Len(tag) - 3)
                         ELSE "" ] :
        body \in {LStrip(line)}})

\* new DOMParser().parseFromString(rawXml, "text/xml"): the elements of the
\* document in document order, each with its tag name and its textContent
ParseElements(rawXml) ==
    TheOne({
        LET n        == Len(lines)
            close(k) == MinOf({m \in (k + 1)..n :
                                  lines[m].kind = "end" /\ lines[m].indent = lines[k].indent})
            content(k) ==
                IF lines[k].kind = "start"
                THEN Join([j \in 1..(close(k) - k - 1) |->
                              lines[k + j].indent \o lines[k + j].text], "\n")
                ELSE lines[k].text
            elems == SelectSeq([k \in 1..n |-> k],
                               LAMBDA k : lines[k].kind \in {"start", "leaf", "empty"})
        IN  [e \in 1..Len(elems) |-> [tag |-> lines[elems[e]].tag, textContent |-> content(elems[e])]] :
        lines \in {TheOne({[k \in 1..Len(ls) |-> XmlLine(ls[k])] : ls \in {SplitLines(rawXml)}})}})

\* for one record, the trimmed non-empty textContent of the elements that
\* doc.querySelectorAll(tagName) returns, in document order
ValuesIn(rec, tagName) ==
    TheOne({
        TheOne({[i \in 1..Len(hits) |-> Strip(els[hits[i]].textContent)] :
                   hits \in {SelectSeq([e \in 1..Len(els) |-> e],
                                       LAMBDA e : els[e].tag = tagName
                                                    /\ Strip(els[e].textContent) # "")}}) :
        els \in {ParseElements(rec.rawXml)}})

\* collectUniqueValues(tagName) over the records recs: Array.from(set)
collectUniqueValues(recs, tagName) ==
    Dedup(Flatten([r \in 1..Len(recs) |-> ValuesIn(recs[r], tagName)]))

\* collectAllOccurrences(tagName) over the records recs
collectAllOccurrences(recs, tagName) ==
    Flatten([r \in 1..Len(recs) |->
                TheOne({[i \in 1..Len(vals) |->
                            [val |-> vals[i], src |-> recs[r].source, type |-> recs[r].defType,
                             name |-> recs[r].defName]] :
                        vals \in {ValuesIn(recs[r], tagName)}})])

IsDigit(c) == IndexIn(c, Digits) # 0

\* the length of the run of digits a text begins with
DigitRun(s) ==
    IF \E i \in 1..Len(s) : ~IsDigit(CharAt(s, i))
    THEN MinOf({i \in 1..Len(s) : ~IsDigit(CharAt(s, i))}) - 1
    ELSE Len(s)

\* a run of digits without its leading zeros
RECURSIVE TrimZeros(_)
TrimZeros(ds) == IF Len(ds) > 1 /\ Head(ds) = "0" THEN TrimZeros(Tail(ds)) ELSE ds

\* two runs of digits compared as numbers
CompareDigits(a, b) ==
    LET x == TrimZeros(a)
        y == TrimZeros(b)
    IN  IF Len(x) < Len(y) THEN -1
        ELSE IF Len(x) > Len(y) THEN 1
        ELSE PrimaryCompare(x, y)

\* the first level of localeCompare with {numeric: true}: runs of digits
\* count as numbers
RECURSIVE NumericCompare(_, _)
NumericCompare(a, b) ==
    IF a = "" /\ b = "" THEN 0
    ELSE IF a = "" THEN -1
    ELSE IF b = "" THEN 1
    ELSE IF IsDigit(Head(a)) /\ IsDigit(Head(b))
    THEN LET c == CompareDigits(SubSeq(a, 1, DigitRun(a)), SubSeq(b, 1, DigitRun(b)))
         IN  IF c # 0 THEN c
             ELSE NumericCompare(SubSeq(a, DigitRun(a) + 1, Len(a)), SubSeq(b, DigitRun(b) + 1, Len(b)))
    ELSE IF CollationRank(Head(a)) < CollationRank(Head(b)) THEN -1
    ELSE IF CollationRank(Head(a)) > CollationRank(Head(b)) THEN 1
    ELSE NumericCompare(Tail(a), Tail(b))

\* a.localeCompare(b, undefined, {numeric: true})
localeCompareNumeric(a, b) ==
    LET primary == NumericCompare(a, b)
    IN  IF primary # 0 THEN primary ELSE CaseCompare(a, b)

\* /^[-+]?\d+(\.\d+)?$/.test(x)
IsNumberText(x) ==
    LET u    == IF x # "" /\ Head(x) \in {"-", "+"} THEN Tail(x) ELSE x
        n    == DigitRun(u)
        rest == SubSeq(u, n + 1, Len(u))
    IN  /\ n >= 1
        /\ \/ rest = ""
           \/ Len(rest) >= 2 /\ Head(rest) = "." /\ DigitRun(Tail(rest)) = Len(rest) - 1

\* the number a run of digits writes
RECURSIVE DigitsValue(_)
DigitsValue(ds) ==
    IF ds = "" THEN 0
    ELSE DigitsValue(SubSeq(ds, 1, Len(ds) - 1)) * 10 + IndexIn(CharAt(ds, Len(ds)), Digits) - 1

RECURSIVE Zeros(_)
Zeros(n) == IF n <= 0 THEN "" ELSE "0" \o Zeros(n - 1)

\* parseFloat(x) multiplied by 10^places, for a text x the test above accepts
\* with at most that many digits after the point
ScaledValue(x, places) ==
    LET u    == IF Head(x) \in {"-", "+"} THEN Tail(x) ELSE x
        n    == DigitRun(u)
        frac == IF n = Len(u) THEN "" ELSE SubSeq(u, n + 2, Len(u))
        v    == DigitsValue(SubSeq(u, 1, n) \o frac \o Zeros(places - Len(frac)))
    IN  IF Head(x) = "-" THEN 0 - v ELSE v

FractionLength(x) ==
    IF \E i \in 1..Len(x) : CharAt(x, i) = "."
    THEN Len(x) - MinOf({i \in 1..Len(x) : CharAt(x, i) = "."})
    ELSE 0

\* parseFloat(a) - parseFloat(b) < 0
NumberLess(a, b) ==
    LET places == IF FractionLength(a) > FractionLength(b) THEN FractionLength(a)
                  ELSE FractionLength(b)
    IN  ScaledValue(a, places) < ScaledValue(b, places)

\* the comparator of the occurrences, as a strict order
OccurrenceLess(a, b) ==
    TheOne({ IF c # 0 THEN c < 0 ELSE
             TheOne({ IF d # 0 THEN d < 0 ELSE
                      TheOne({ IF e # 0 THEN e < 0 ELSE localeCompare(a.name, b.name) < 0 :
                               e \in {localeCompare(a.type, b.type)}}) :
                      d \in {localeCompare(a.src, b.src)}}) :
             c \in {localeCompareNumeric(a.val, b.val)}})

\* showValues(tagName) in the mode given, over the records recs: what it
\* writes to similarTitle (the tag, the count and the kind of view) and the
\* entries it writes to similarBody (none standing for "(none)")
showValues(recs, tagName, mode) ==
    IF mode = "unique"
    THEN TheOne({
            TheOne({[ tag |-> tagName, count |-> Len(vals), view |-> "unique",
                      body |-> StableSort(vals, [i, j \in 1..Len(vals) |->
                                                   IF num THEN NumberLess(vals[i], vals[j])
                                                   ELSE localeCompareNumeric(vals[i], vals[j]) < 0]) ] :
                    num \in {\A i \in 1..Len(vals) : IsNumberText(vals[i])}}) :
            vals \in {collectUniqueValues(recs, tagName)}})
    ELSE TheOne({[ tag |-> tagName, count |-> Len(occ), view |-> "all",
                   body |-> StableSort(occ, [i, j \in 1..Len(occ) |-> OccurrenceLess(occ[i], occ[j])]) ] :
                 occ \in {collectAllOccurrences(recs, tagName)}})

\* ------------------------------------------------------------------------
\* State
\* ------------------------------------------------------------------------

VARIABLES
    dataRoot,     \* the XML files under the data directory (positions in AllFiles)
    scanned,      \* the files main has read, in the order it read them
    records,      \* main's list records: the record objects and parse failures
    defs,         \* main's list defs: positions in records of the records
    errors,       \* main's list errors: positions in records of the parse failures
    index,        \* build_parent_chains' index: source -> (defType, defName) -> position
    di,           \* position in defs of the loop "for d in defs"
    walk,         \* the local variables of the chain walk of defs[di]
    payload,      \* payload["records"] once main has assembled it
    pc,           \* where main is
    firstRun,     \* the records as build_parent_chains left them, handed defs as main does
    searchValue,  \* the page: the text in the search box
    timer,        \* the page: the variable timer, a timeout id (0 for null)
    pending,      \* the page: the ids of the timeouts set and neither run nor cleared
    query,        \* the page: state.query
    sourceFilter, \* the page: state.sourceFilter
    typeFilter,   \* the page: state.typeFilter
    groupOpen,    \* the page: state.groupOpen
    results,      \* the page: the results header and the groups as rendered
    selectedId,   \* the page: state.selectedId (None for null)
    hash,         \* the page: location.hash without its leading #
    hashEvents,   \* the page: the hashchange events queued and not yet dispatched
    detail,       \* the page: the detail pane, as the position in the page's
                  \* records of the record it shows (0 while it shows none)
    justSelected, \* the page: the handler that ran last selected a record by id
    similarMode,  \* the page: similarMode
    currentTag,   \* the page: currentTag (None for null)
    similar,      \* the page: the title count and the body of the values pane
    callArgs,     \* a function applied on its own: its name and arguments (None: no call)
    callResult,   \* a function applied on its own: what it returned (None: not yet)
    twoCols,      \* the page: the container element has the class twoCols
    sidebarDisplay,    \* the page: sidebarEl.style.display
    toggleFiltersText, \* the page: the text of the button toggleFiltersBtn
    clicks        \* the page: the clicks of toggleFiltersBtn so far

mainVars == << dataRoot, scanned, records, defs, errors, index, di, walk, payload, pc >>

selVars == << selectedId, hash, hashEvents, detail >>

markVars == << justSelected >>

lookupVars == << similarMode, currentTag, similar >>

callVars == << callArgs, callResult >>

NoCall == callArgs = None /\ callResult = None

panelVars == << twoCols, sidebarDisplay, toggleFiltersText, clicks >>

\* the container, the sidebar and the button as the document declares them
PanelShown ==
    /\ twoCols = FALSE
    /\ sidebarDisplay = ""
    /\ toggleFiltersText = "Hide Filters"
    /\ clicks = 0

pageVars ==
    << searchValue, timer, pending, query, sourceFilter, typeFilter, groupOpen, results, selVars,
       markVars, lookupVars, callVars, panelVars >>

vars == << mainVars, firstRun, pageVars >>

\* the page as its script declares it: nothing selected, no hash, the values
\* pane empty
NoSelection ==
    /\ selectedId = None
    /\ hash = ""
    /\ hashEvents = 0
    /\ detail = 0
    /\ justSelected = FALSE
    /\ similarMode = "unique"
    /\ currentTag = None
    /\ similar = None

\* no page is open while main runs
NoPage ==
    /\ NoSelection
    /\ NoCall
    /\ PanelShown
    /\ searchValue = ""
    /\ timer = 0
    /\ pending = {}
    /\ query = ""
    /\ sourceFilter = {}
    /\ typeFilter = {}
    /\ groupOpen = << >>
    /\ results = [header |-> [records |-> 0, groups |-> 0], groups |-> <<>>]

NoWalk ==
    [ chain_ids |-> <<>>, chain_labels |-> <<>>, seen |-> {}, cur_type |-> "",
      cur_source |-> "", parent_name |-> None, steps |-> 0, broke |-> FALSE ]

\* ------------------------------------------------------------------------
\* main: scan, resolve, assemble
\* ------------------------------------------------------------------------

Init ==
    /\ dataRoot \in DataRoots
    /\ scanned = <<>>
    /\ records = <<>>
    /\ defs = <<>>
    /\ errors = <<>>
    /\ index = EmptyIndex
    /\ di = 0
    /\ walk = NoWalk
    /\ payload = <<>>
    /\ pc = "scan"
    /\ firstRun = <<>>
    /\ NoPage

\* the files main may read next: the directories under the data directory
\* are taken one after the other, in any order, and so are the files of each
NextFiles ==
    LET left == dataRoot \ Range(scanned)
        cur  == IF scanned = <<>> THEN None ELSE Some(AllFiles[scanned[Len(scanned)]].source)
        same == {f \in left : cur # None /\ AllFiles[f].source = cur[1]}
    IN  IF same # {} THEN same ELSE left

\* one pass through the loop over the XML files
ScanFile(f) ==
    /\ pc = "scan"
    /\ f \in NextFiles
    /\ scanned' = Append(scanned, f)
    /\ records' = records \o ExtractFile(AllFiles[f])
    /\ UNCHANGED << dataRoot, defs, errors, index, di, walk, payload, pc >>
    /\ UNCHANGED << firstRun, pageVars >>

\* defs = [...]; errors = [...] after the last file
SplitRecords ==
    /\ pc = "scan"
    /\ dataRoot \ Range(scanned) = {}
    /\ defs' = Positions(records, FALSE)
    /\ errors' = Positions(records, TRUE)
    /\ pc' = "index"
    /\ UNCHANGED << dataRoot, scanned, records, index, di, walk, payload >>
    /\ UNCHANGED << firstRun, pageVars >>

\* build_parent_chains: the index of the defs
IndexDefs ==
    /\ pc = "index"
    /\ index' = BuildIndex(records, defs)
    /\ di' = 1
    /\ pc' = "loop"
    /\ UNCHANGED << dataRoot, scanned, records, defs, errors, walk, payload >>
    /\ UNCHANGED << firstRun, pageVars >>

\* for d in defs: a patch record gets empty chains
SkipPatch ==
    /\ pc = "loop"
    /\ di <= Len(defs)
    /\ records[defs[di]].kind # "def"
    /\ records' = [records EXCEPT ![defs[di]] = WithChains(@, <<>>, <<>>)]
    /\ di' = di + 1
    /\ UNCHANGED << dataRoot, scanned, defs, errors, index, walk, payload, pc >>
    /\ UNCHANGED << firstRun, pageVars >>

\* for d in defs: the walk of a def starts
BeginWalk ==
    /\ pc = "loop"
    /\ di <= Len(defs)
    /\ records[defs[di]].kind = "def"
    /\ walk' = StartWalk(records[defs[di]])
    /\ pc' = "while"
    /\ UNCHANGED << dataRoot, scanned, records, defs, errors, index, di, payload >>
    /\ UNCHANGED << firstRun, pageVars >>

\* one pass through the while loop
WalkStep ==
    /\ pc = "while"
    /\ WalkContinues(walk)
    /\ walk' = LoopBody(records, index, walk)
    /\ UNCHANGED << dataRoot, scanned, records, defs, errors, index, di, payload, pc >>
    /\ UNCHANGED << firstRun, pageVars >>

\* the while loop is left and the chains are stored in d
StoreChains ==
    /\ pc = "while"
    /\ ~WalkContinues(walk)
    /\ records' = [records EXCEPT ![defs[di]] = WithChains(@, walk.chain_ids, walk.chain_labels)]
    /\ di' = di + 1
    /\ pc' = "loop"
    /\ UNCHANGED << dataRoot, scanned, defs, errors, index, walk, payload >>
    /\ UNCHANGED << firstRun, pageVars >>

\* payload = { "records": defs + errors }
AssemblePayload ==
    /\ pc = "loop"
    /\ di > Len(defs)
    /\ payload' = [i \in 1..(Len(defs) + Len(errors)) |-> records[(defs \o errors)[i]]]
    /\ pc' = "done"
    /\ UNCHANGED << dataRoot, scanned, records, defs, errors, index, di, walk >>
    /\ UNCHANGED << firstRun, pageVars >>

Next ==
    \/ \E f \in 1..Len(AllFiles) : ScanFile(f)
    \/ SplitRecords
    \/ IndexDefs
    \/ SkipPatch
    \/ BeginWalk
    \/ WalkStep
    \/ StoreChains
    \/ AssemblePayload

Spec == Init /\ [][Next]_vars

\* ------------------------------------------------------------------------
\* build_parent_chains as a function of the record set and of the order of defs
\* ------------------------------------------------------------------------

ResolverRoots == {fs \in SUBSET SmallFiles : Cardinality(fs) <= MaxResolverFiles}

InitResolver ==
    /\ dataRoot \in ResolverRoots
    /\ scanned = <<>>
    /\ records = <<>>
    /\ defs = <<>>
    /\ errors = <<>>
    /\ index = EmptyIndex
    /\ di = 0
    /\ walk = NoWalk
    /\ payload = <<>>
    /\ pc = "scan"
    /\ firstRun = <<>>
    /\ NoPage

\* build_parent_chains(defs), as main calls it
ResolveAll ==
    /\ pc = "index"
    /\ records' = build_parent_chains(records, defs)
    /\ firstRun' = records'
    /\ pc' = "resolved"
    /\ UNCHANGED << dataRoot, scanned, defs, errors, index, di, walk, payload, pageVars >>

\* build_parent_chains(defs) once more, over the records it has resolved
ResolveAgain ==
    /\ pc = "resolved"
    /\ records' = build_parent_chains(records, defs)
    /\ pc' = "again"
    /\ UNCHANGED << dataRoot, scanned, defs, errors, index, di, walk, payload, firstRun, pageVars >>

\* the orders in which the records of defs can be handed over
Orders == {[i \in 1..Len(defs) |-> defs[o[i]]] : o \in Permutations(1..Len(defs))}

\* build_parent_chains handed the records of defs in the order order
ResolvePermuted(order) ==
    /\ pc = "index"
    /\ defs' = order
    /\ records' = build_parent_chains(records, order)
    /\ firstRun' = build_parent_chains(records, defs)
    /\ pc' = "permuted"
    /\ UNCHANGED << dataRoot, scanned, errors, index, di, walk, payload, pageVars >>

NextResolver ==
    \/ \E f \in 1..Len(AllFiles) : ScanFile(f)
    \/ SplitRecords
    \/ ResolveAll
    \/ ResolveAgain
    \/ \E order \in Orders : ResolvePermuted(order)

SpecResolver == InitResolver /\ [][NextResolver]_vars

\* ------------------------------------------------------------------------
\* The page: search box, filters, result groups
\* ------------------------------------------------------------------------

\* the scans whose payload the page is opened on
PageScans ==
    { << RoyaltyBase, CoreBase, CoreFix >>,
      << RoyaltyStub, RoyaltySword, CoreBase >>,
      << RoyaltyBroken, RoyaltyBase, CoreThings, CoreFix >> }

\* the texts typed into the search box
Queries == { "", " Base  THINGDEF", "gun core", "sword fix" }

\* the names counted by typeCounts and sourceCounts
TypeNames == {d.defType : d \in Range(JsDefs(payload))}

SourceNames == {d.source : d \in Range(JsDefs(payload))}

\* the page after its script has run: state as declared, then init()
InitPage ==
    /\ \E scan \in PageScans : payload = MainPayload(scan)
    /\ dataRoot = {}
    /\ scanned = <<>>
    /\ records = <<>>
    /\ defs = <<>>
    /\ errors = <<>>
    /\ index = EmptyIndex
    /\ di = 0
    /\ walk = NoWalk
    /\ pc = "page"
    /\ firstRun = <<>>
    /\ NoSelection
    /\ NoCall
    /\ PanelShown
    /\ searchValue = ""
    /\ timer = 0
    /\ pending = {}
    /\ query = ""
    /\ sourceFilter = SourceNames
    /\ typeFilter = TypeNames
    /\ \E r \in {renderResults(payload, "", SourceNames, TypeNames, << >>)} :
          /\ groupOpen = r.groupOpen
          /\ results = [header |-> r.header, groups |-> r.groups]

\* renderResults() once state.query and the two filters have their new values
Render(q, sf, tf) ==
    \E r \in {renderResults(payload, q, sf, tf, groupOpen)} :
        /\ groupOpen' = r.groupOpen
        /\ results' = [header |-> r.header, groups |-> r.groups]

\* selectRecord(id, pushHash): what it does to the selection, the location
\* and the detail pane; a change of the location queues a hashchange event
selectRecord(id, pushHash) ==
    \E p \in {FindById(JsDefs(payload), id)} :
        IF p = 0 THEN UNCHANGED selVars
        ELSE /\ selectedId' = Some(id)
             /\ detail' = p
             /\ IF pushHash /\ hash # encodeURIComponent(id)
                THEN hash' = encodeURIComponent(id) /\ hashEvents' = hashEvents + 1
                ELSE UNCHANGED << hash, hashEvents >>

\* if (state.selectedId) selectRecord(state.selectedId, false)
Reselect ==
    IF selectedId # None THEN selectRecord(selectedId[1], FALSE) ELSE UNCHANGED selVars

\* setTimeout: the id of the timeout it sets, one that no pending timeout has
setTimeout(ids) == MinOf((1..(Cardinality(ids) + 1)) \ ids)

\* the "input" listener of the search box without its call of clearTimeout
TypeSearch_no_clear(v) ==
    /\ pc = "page"
    /\ v # searchValue
    /\ searchValue' = v
    /\ timer' = setTimeout(pending)
    /\ pending' = pending \cup {timer'}
    /\ UNCHANGED << mainVars, firstRun, query, sourceFilter, typeFilter, groupOpen, results, selVars,
                    lookupVars, callVars, panelVars >>
    /\ justSelected' = FALSE

\* the "input" listener of the search box: clearTimeout(timer); timer =
\* setTimeout(onSearchChanged, 200)
TypeSearch(v) ==
    /\ pc = "page"
    /\ v # searchValue
    /\ searchValue' = v
    /\ timer' = setTimeout(pending \ {timer})
    /\ pending' = (pending \ {timer}) \cup {timer'}
    /\ UNCHANGED << mainVars, firstRun, query, sourceFilter, typeFilter, groupOpen, results, selVars,
                    lookupVars, callVars, panelVars >>
    /\ justSelected' = FALSE

\* the timeout runs onSearchChanged
onSearchChanged ==
    /\ pc = "page"
    /\ \E t \in pending : pending' = pending \ {t}
    /\ query' = searchValue
    /\ Render(searchValue, sourceFilter, typeFilter)
    /\ UNCHANGED << mainVars, firstRun, searchValue, timer, sourceFilter, typeFilter, lookupVars,
                    callVars, panelVars >>
    /\ Reselect
    /\ justSelected' = FALSE

\* the "click" listener of the clear button
ClearSearch ==
    /\ pc = "page"
    /\ searchValue' = ""
    /\ query' = ""
    /\ Render("", sourceFilter, typeFilter)
    /\ UNCHANGED << mainVars, firstRun, timer, pending, sourceFilter, typeFilter, lookupVars,
                    callVars, panelVars >>
    /\ Reselect
    /\ justSelected' = FALSE

\* the "change" listener of the checkbox of source s
ToggleSource(s) ==
    /\ pc = "page"
    /\ sourceFilter' = IF s \in sourceFilter THEN sourceFilter \ {s} ELSE sourceFilter \cup {s}
    /\ Render(query, sourceFilter', typeFilter)
    /\ UNCHANGED << mainVars, firstRun, searchValue, timer, pending, query, typeFilter, selVars,
                    lookupVars, callVars, panelVars >>
    /\ justSelected' = FALSE

SourcesAll ==
    /\ pc = "page"
    /\ sourceFilter' = SourceNames
    /\ Render(query, sourceFilter', typeFilter)
    /\ UNCHANGED << mainVars, firstRun, searchValue, timer, pending, query, typeFilter, selVars,
                    lookupVars, callVars, panelVars >>
    /\ justSelected' = FALSE

SourcesNone ==
    /\ pc = "page"
    /\ sourceFilter' = {}
    /\ Render(query, sourceFilter', typeFilter)
    /\ UNCHANGED << mainVars, firstRun, searchValue, timer, pending, query, typeFilter, selVars,
                    lookupVars, callVars, panelVars >>
    /\ justSelected' = FALSE

\* the "change" listener of the checkbox of type t
ToggleType(t) ==
    /\ pc = "page"
    /\ typeFilter' = IF t \in typeFilter THEN typeFilter \ {t} ELSE typeFilter \cup {t}
    /\ Render(query, sourceFilter, typeFilter')
    /\ UNCHANGED << mainVars, firstRun, searchValue, timer, pending, query, sourceFilter, selVars,
                    lookupVars, callVars, panelVars >>
    /\ justSelected' = FALSE

TypesAll ==
    /\ pc = "page"
    /\ typeFilter' = TypeNames
    /\ Render(query, sourceFilter, typeFilter')
    /\ UNCHANGED << mainVars, firstRun, searchValue, timer, pending, query, sourceFilter, selVars,
                    lookupVars, callVars, panelVars >>
    /\ justSelected' = FALSE

TypesNone ==
    /\ pc = "page"
    /\ typeFilter' = {}
    /\ Render(query, sourceFilter, typeFilter')
    /\ UNCHANGED << mainVars, firstRun, searchValue, timer, pending, query, sourceFilter, selVars,
                    lookupVars, callVars, panelVars >>
    /\ justSelected' = FALSE

\* the "click" listener of the header of the g-th group shown
ToggleGroup(g) ==
    /\ pc = "page"
    /\ g \in 1..Len(results.groups)
    /\ groupOpen' = [groupOpen EXCEPT ![results.groups[g].type] = ~@]
    /\ results' = [results EXCEPT !.groups[g].open = groupOpen'[results.groups[g].type]]
    /\ UNCHANGED << mainVars, firstRun, searchValue, timer, pending, query, sourceFilter, typeFilter, selVars,
                    lookupVars, callVars, panelVars >>
    /\ justSelected' = FALSE

\* the "click" listeners of the expand-all and collapse-all buttons
SetAllGroups(open) ==
    /\ pc = "page"
    /\ groupOpen' = [t \in DOMAIN groupOpen \cup TypeNames |->
                        IF t \in TypeNames THEN open ELSE groupOpen[t]]
    /\ results' = [results EXCEPT !.groups =
                      [g \in 1..Len(results.groups) |-> [results.groups[g] EXCEPT !.open = open]]]
    /\ UNCHANGED << mainVars, firstRun, searchValue, timer, pending, query, sourceFilter, typeFilter, selVars,
                    lookupVars, callVars, panelVars >>
    /\ justSelected' = FALSE

NextPage ==
    \/ \E v \in Queries : TypeSearch(v)
    \/ onSearchChanged
    \/ ClearSearch
    \/ \E s \in SourceNames : ToggleSource(s)
    \/ SourcesAll
    \/ SourcesNone
    \/ \E t \in TypeNames : ToggleType(t)
    \/ TypesAll
    \/ TypesNone
    \/ \E g \in 1..Len(results.groups) : ToggleGroup(g)
    \/ SetAllGroups(TRUE)
    \/ SetAllGroups(FALSE)

SpecPage == InitPage /\ [][NextPage]_vars

\* ------------------------------------------------------------------------
\* The page: the button that hides and shows the filters
\* ------------------------------------------------------------------------

\* the body shared by the click listeners of toggleFiltersBtn, on the class
\* of the container, the display of the sidebar and the text of the button
ToggleFilters(panel) ==
    LET two == ~panel.twoCols
    IN  [ twoCols |-> two,
          display |-> IF two THEN "none" ELSE "",
          text    |-> IF two THEN "Show Filters" ELSE "Hide Filters" ]

\* the listener registered under "Hide/Show sidebar"
toggleFiltersFirst(panel) == ToggleFilters(panel)

\* the listener registered under "Sidebar toggle"
toggleFiltersSecond(panel) == ToggleFilters(panel)

\* one click of toggleFiltersBtn: its listeners run in the order in which
\* they were registered
ClickToggleFilters ==
    /\ pc = "page"
    /\ clicks < MaxClicks
    /\ clicks' = clicks + 1
    /\ \E after \in {toggleFiltersSecond(toggleFiltersFirst(
                         [twoCols |-> twoCols, display |-> sidebarDisplay,
                          text |-> toggleFiltersText]))} :
          /\ twoCols' = after.twoCols
          /\ sidebarDisplay' = after.display
          /\ toggleFiltersText' = after.text
    /\ UNCHANGED << mainVars, firstRun, searchValue, timer, pending, query, sourceFilter, typeFilter,
                    groupOpen, results, selVars, lookupVars, callVars >>
    /\ justSelected' = FALSE

NextPanel ==
    \/ ClickToggleFilters
    \/ \E s \in SourceNames : ToggleSource(s)
    \/ SourcesAll
    \/ SourcesNone
    \/ \E t \in TypeNames : ToggleType(t)
    \/ TypesAll
    \/ TypesNone

SpecPanel == InitPage /\ [][NextPanel]_vars

\* a step in which the pending timeout runs: as a step of the page it is a
\* step of onSearchChanged
TimeoutRuns == pending # {} /\ pending' = {}

\* the page with a user who does not type for ever without a pause of 200
\* ms: a timeout that stays pending runs in the end
SpecPageFair == SpecPage /\ WF_pending(TimeoutRuns)

\* ------------------------------------------------------------------------
\* The page: selection, location hash, detail pane
\* ------------------------------------------------------------------------

\* the "click" listener of the r-th row of the g-th group, an open group
ClickRow(g, r) ==
    /\ pc = "page"
    /\ hashEvents < MaxHashEvents
    /\ g \in 1..Len(results.groups)
    /\ results.groups[g].open
    /\ r \in 1..Len(results.groups[g].rows)
    /\ selectRecord(JsDefs(payload)[results.groups[g].rows[r]].id, TRUE)
    /\ UNCHANGED << mainVars, firstRun, searchValue, timer, pending, query, sourceFilter, typeFilter,
                    groupOpen, results, lookupVars, callVars, panelVars >>
    /\ justSelected' = TRUE

\* the "click" listener of the i-th button of the parent chain shown; the
\* button is disabled when the chain has no id at i
ClickAncestor(i) ==
    /\ pc = "page"
    /\ hashEvents < MaxHashEvents
    /\ detail # 0
    /\ JsDefs(payload)[detail].kind # "patch"
    /\ i \in 1..Len(JsDefs(payload)[detail].parentsChainLabels)
    /\ i <= Len(JsDefs(payload)[detail].parentsChainIds)
    /\ selectRecord(JsDefs(payload)[detail].parentsChainIds[i], TRUE)
    /\ UNCHANGED << mainVars, firstRun, searchValue, timer, pending, query, sourceFilter, typeFilter,
                    groupOpen, results, lookupVars, callVars, panelVars >>
    /\ justSelected' = TRUE

\* the locations a link or the address bar can lead to: the records' ids and
\* an id no record has
LinkedHashes ==
    {encodeURIComponent(d.id) : d \in Range(JsDefs(payload))}
      \cup {encodeURIComponent("Core|ThingDef:Nothing")}

\* the user follows a link to #h on the page
FollowLink(h) ==
    /\ pc = "page"
    /\ hashEvents < MaxHashEvents
    /\ h # hash
    /\ hash' = h
    /\ hashEvents' = hashEvents + 1
    /\ UNCHANGED << mainVars, firstRun, searchValue, timer, pending, query, sourceFilter, typeFilter,
                    groupOpen, results, selectedId, detail, lookupVars, callVars, panelVars >>
    /\ justSelected' = FALSE

\* a hashchange event is dispatched: applyHash
applyHash ==
    /\ pc = "page"
    /\ hashEvents > 0
    /\ \E p \in {FindById(JsDefs(payload), decodeURIComponent(hash))} :
          IF decodeURIComponent(hash) = "" \/ p = 0
          THEN /\ hashEvents' = hashEvents - 1
               /\ UNCHANGED << sourceFilter, typeFilter, groupOpen, results, selectedId, hash,
                               detail >>
          ELSE \E rec \in {JsDefs(payload)[p]} :
                 /\ sourceFilter' = sourceFilter \cup {rec.source}
                 /\ typeFilter' = typeFilter \cup {rec.defType}
                 /\ \E r \in {renderResults(payload, query, sourceFilter', typeFilter',
                                             (rec.defType :> TRUE) @@ groupOpen)} :
                       /\ groupOpen' = r.groupOpen
                       /\ results' = [header |-> r.header, groups |-> r.groups]
                 /\ selectedId' = Some(rec.id)
                 /\ detail' = p
                 /\ hash' = hash
                 /\ hashEvents' = hashEvents - 1
    /\ UNCHANGED << mainVars, firstRun, searchValue, timer, pending, query, lookupVars, callVars, panelVars >>
    /\ justSelected' = (FindById(JsDefs(payload), decodeURIComponent(hash)) # 0)

\* the scans whose payload the page with a selection is opened on
SelectScans == { << AnomalyBase, CoreBase >>, << BiotechBase, CoreFix >> }

\* the texts typed into its search box
SelectQueries == { "", "gun" }

\* the page as loaded from a location with the fragment h: init() ends with
\* a call of applyHash
OpenPage(scan) ==
    /\ payload = MainPayload(scan)
    /\ dataRoot = {}
    /\ scanned = <<>>
    /\ records = <<>>
    /\ defs = <<>>
    /\ errors = <<>>
    /\ index = EmptyIndex
    /\ di = 0
    /\ walk = NoWalk
    /\ pc = "page"
    /\ firstRun = <<>>
    /\ searchValue = ""
    /\ timer = 0
    /\ pending = {}
    /\ query = ""
    /\ sourceFilter = SourceNames
    /\ typeFilter = TypeNames
    /\ hashEvents = 0
    /\ similarMode = "unique"
    /\ currentTag = None
    /\ similar = None
    /\ NoCall
    /\ PanelShown
    /\ \E h \in {""} \cup LinkedHashes :
          /\ hash = h
          /\ \E p \in {FindById(JsDefs(payload), decodeURIComponent(h))} :
                /\ detail = p
                /\ justSelected = (p # 0)
                /\ selectedId = IF p = 0 THEN None ELSE Some(JsDefs(payload)[p].id)
                /\ \E r \in {renderResults(payload, "", SourceNames, TypeNames,
                                            IF p = 0 THEN << >>
                                            ELSE JsDefs(payload)[p].defType :> TRUE)} :
                      /\ groupOpen = r.groupOpen
                      /\ results = [header |-> r.header, groups |-> r.groups]

InitSelect == \E scan \in SelectScans : OpenPage(scan)

NextSelect ==
    \/ \E v \in SelectQueries : TypeSearch(v)
    \/ onSearchChanged
    \/ ClearSearch
    \/ \E s \in SourceNames : ToggleSource(s)
    \/ \E t \in TypeNames : ToggleType(t)
    \/ \E g \in 1..Len(results.groups) : ToggleGroup(g)
    \/ \E g \in 1..Len(results.groups) :
          \E r \in 1..Len(results.groups[g].rows) : ClickRow(g, r)
    \/ \E i \in 1..(MAX_DEPTH + 2) : ClickAncestor(i)
    \/ \E h \in LinkedHashes : FollowLink(h)
    \/ applyHash

SpecSelect == InitSelect /\ [][NextSelect]_vars

\* ------------------------------------------------------------------------
\* The page: values of a tag
\* ------------------------------------------------------------------------

\* the tag names shown in the raw XML of the record in the detail pane
ShownTags ==
    IF detail = 0 THEN {}
    ELSE {e.tag : e \in Range(ParseElements(JsDefs(payload)[detail].rawXml))}

\* ShowValues with the values collected from the records shown in the
\* results only
ShowValues_shown_records(tag) ==
    /\ pc = "page"
    /\ detail # 0
    /\ tag \in ShownTags
    /\ currentTag' = Some(tag)
    /\ similar' = Some(showValues(SelectSeq(JsDefs(payload),
                                            LAMBDA d : matchRecord(d, tokenize(query), sourceFilter,
                                                                   typeFilter)),
                                  tag, similarMode))
    /\ justSelected' = FALSE
    /\ UNCHANGED << mainVars, firstRun, searchValue, timer, pending, query, sourceFilter, typeFilter,
                    groupOpen, results, selVars, similarMode, callVars, panelVars >>

\* a click with the shift key on a tag name of the raw XML; every listener
\* that selectRecord has added makes the same call of showValues
ShowValues(tag) ==
    /\ pc = "page"
    /\ detail # 0
    /\ tag \in ShownTags
    /\ currentTag' = Some(tag)
    /\ similar' = Some(showValues(JsDefs(payload), tag, similarMode))
    /\ justSelected' = FALSE
    /\ UNCHANGED << mainVars, firstRun, searchValue, timer, pending, query, sourceFilter, typeFilter,
                    groupOpen, results, selVars, similarMode, callVars, panelVars >>

\* similarUniqueBtn.onclick and similarAllBtn.onclick
SetSimilarMode(mode) ==
    /\ pc = "page"
    /\ similarMode' = mode
    /\ IF currentTag # None
       THEN similar' = Some(showValues(JsDefs(payload), currentTag[1], mode))
       ELSE UNCHANGED similar
    /\ justSelected' = FALSE
    /\ UNCHANGED << mainVars, firstRun, searchValue, timer, pending, query, sourceFilter, typeFilter,
                    groupOpen, results, selVars, currentTag, callVars, panelVars >>

\* the scans whose payload the page is opened on to look up values
LookupScans == { << RoyaltyStats, CoreBase >>, << RoyaltyBase, CoreFix >> }

\* the text typed into the search box
LookupQueries == { "gun" }

InitLookup == \E scan \in LookupScans : OpenPage(scan)

NextLookup ==
    \/ \E v \in LookupQueries : TypeSearch(v)
    \/ onSearchChanged
    \/ \E s \in SourceNames : ToggleSource(s)
    \/ \E t \in TypeNames : ToggleType(t)
    \/ \E tag \in ShownTags : ShowValues(tag)
    \/ SetSimilarMode("unique")
    \/ SetSimilarMode("all")

SpecLookup == InitLookup /\ [][NextLookup]_vars

\* ------------------------------------------------------------------------
\* Properties of the scan and of the parent chains
\* ------------------------------------------------------------------------

DefPositions == {defs[i] : i \in {j \in 1..Len(defs) : records[defs[j]].kind = "def"}}

DefSources == {records[p].source : p \in DefPositions}

DefTypes == {records[p].defType : p \in DefPositions}

DefNames ==
    {records[p].defName : p \in DefPositions}
      \cup {records[p].parentName[1] : p \in {q \in DefPositions : Truthy(records[q].parentName)}}

\* some def record of source s is keyed (T, P)
HasDef(s, T, P) ==
    \E p \in DefPositions :
        records[p].source = s /\ records[p].defType = T /\ records[p].defName = P

\* the sources other than S and Core that have a def keyed (T, P)
OtherSourcesWith(S, T, P) == {s \in DefSources \ {S, "Core"} : HasDef(s, T, P)}

\* the source the parent is to come from, None when no source has it
PreferredSource(S, T, P) ==
    IF HasDef(S, T, P) THEN Some(S)
    ELSE IF HasDef("Core", T, P) THEN Some("Core")
    ELSE IF OtherSourcesWith(S, T, P) = {} THEN None
    ELSE Some(CHOOSE m \in OtherSourcesWith(S, T, P) :
                 \A o \in OtherSourcesWith(S, T, P) \ {m} : StrLess(m, o))

\* C1: for every context (current source S, category T) and parent name P,
\* resolve_parent returns a def keyed (T, P) of source S if S has one, else of
\* Core if Core has one, else of the first source in ascending name order
\* that has one, and returns None only when no source has a def keyed (T, P).
C1_ParentPreference ==
    pc = "loop" =>
        \A S \in DefSources, T \in DefTypes, P \in DefNames :
            LET at   == resolve_parent(index, S, T, P)
                want == PreferredSource(S, T, P)
            IN  IF want = None THEN at = 0
                ELSE /\ at \in DefPositions
                     /\ records[at].source = want[1]
                     /\ records[at].defType = T
                     /\ records[at].defName = P

\* a walk has just resolved a parent that neither the record's source nor
\* Core has and two other sources have
C1_Witness ==
    /\ pc = "while"
    /\ walk.steps = 1
    /\ LET d == records[defs[di]]
       IN  /\ ~HasDef(d.source, d.defType, d.parentName[1])
           /\ ~HasDef("Core", d.defType, d.parentName[1])
           /\ Cardinality(OtherSourcesWith(d.source, d.defType, d.parentName[1])) >= 2
           /\ walk.cur_source \in OtherSourcesWith(d.source, d.defType, d.parentName[1])

\* the position of the record that the parent reference of the record at p
\* resolves to, 0 when the record names no parent or the parent is missing
ParentAt(p) ==
    LET d == records[p]
    IN  IF Truthy(d.parentName)
        THEN resolve_parent(index, d.source, d.defType, d.parentName[1])
        ELSE 0

\* where n parent references followed from the record at p lead, 0 once a
\* reference is absent or missing
RECURSIVE Climb(_, _)
Climb(p, n) == IF p = 0 \/ n = 0 THEN p ELSE Climb(ParentAt(p), n - 1)

\* the parent references followed from the record at p never end: they
\* lead into a cycle
FormsCycle(p) == Climb(p, Len(defs)) # 0

\* for a record whose references form a cycle: the number of parents that
\* are resolved before a (source, category, parentName) step comes again
RECURSIVE StepsToRepeat(_, _)
StepsToRepeat(p, keys) ==
    LET d   == records[p]
        key == << d.source, d.defType, d.parentName[1] >>
    IN  IF key \in keys THEN Cardinality(keys)
        ELSE StepsToRepeat(ParentAt(p), keys \cup {key})

Last(s) == s[Len(s)]

WalkEnded == pc = "while" /\ ~WalkContinues(walk)

\* what is left of the walk: falls with every pass through the loop
WalkVariant(w) == IF WalkContinues(w) THEN MAX_DEPTH + 1 - w.steps ELSE 0

\* C2 as claimed: the walk of a record whose parent references form a cycle
\* ends with "(stopped: cycle)" as its last label.
C2_CycleEndsWithCycleSentinel ==
    (WalkEnded /\ FormsCycle(defs[di])) =>
        (walk.chain_labels # <<>> /\ Last(walk.chain_labels) = CycleSentinel)

\* C2 as amended: the walk of a record whose parent references form a cycle
\* terminates (every pass through the loop lowers a natural number), and its
\* last label is "(stopped: cycle)" when a (source, category, parentName)
\* step comes again after at most 100 resolved parents, "(stopped:
\* depth>100)" when it takes more.
C2_CycleWalkStops ==
    /\ [](pc = "while" => walk.steps <= MAX_DEPTH + 1 /\ WalkVariant(walk) \in Nat)
    /\ [][(pc = "while" /\ walk' # walk) => WalkVariant(walk') < WalkVariant(walk)]_vars
    /\ []((WalkEnded /\ FormsCycle(defs[di])) =>
            LET k == StepsToRepeat(defs[di], {})
            IN  /\ walk.chain_labels # <<>>
                /\ Last(walk.chain_labels) = (IF k <= MAX_DEPTH THEN CycleSentinel ELSE DepthSentinel)
                /\ Len(walk.chain_ids) = Min(k, MAX_DEPTH + 1))

\* the walk of a record on a cycle of two records has ended at the cycle
C2_Witness ==
    /\ WalkEnded
    /\ FormsCycle(defs[di])
    /\ Len(walk.chain_ids) = 2
    /\ Last(walk.chain_ids) = records[defs[di]].id
    /\ Last(walk.chain_labels) = CycleSentinel

\* the number of parents that resolve one after the other from the record
\* at p, counted up to n
RECURSIVE ResolvableSteps(_, _)
ResolvableSteps(p, n) ==
    IF n = 0 \/ ParentAt(p) = 0 THEN 0 ELSE 1 + ResolvableSteps(ParentAt(p), n - 1)

Resolved(p) == "parentsChainIds" \in DOMAIN records[p]

\* C3 as claimed: a resolved def record has at most 100 entries in
\* ancestorIds, and one whose parent chain is longer than 100 resolvable
\* steps (and is no cycle) has "(stopped: depth>100)" as its last label.
C3_DepthBound ==
    \A p \in DefPositions :
        Resolved(p) =>
            /\ Len(records[p].parentsChainIds) <= MAX_DEPTH
            /\ (~FormsCycle(p) /\ ResolvableSteps(p, MAX_DEPTH + 1) > MAX_DEPTH) =>
                   (records[p].parentsChainLabels # <<>>
                      /\ Last(records[p].parentsChainLabels) = DepthSentinel)

\* C4 as claimed: no two records of the record set carry the same id.
C4_IdsUnique ==
    \A i, j \in 1..Len(records) :
        (i # j /\ ~IsFailure(records[i]) /\ ~IsFailure(records[j])) =>
            records[i].id # records[j].id

\* ------------------------------------------------------------------------
\* Properties of build_parent_chains as a function
\* ------------------------------------------------------------------------

\* the two chain lists of a record
Chains(r) == << r.parentsChainIds, r.parentsChainLabels >>

\* C5 as claimed: whatever the order in which the records of a record set
\* are handed to build_parent_chains, each record ends with the same
\* ancestorIds and the same ancestorLabels as in the order of the scan.
C5_OrderIndependent ==
    pc = "permuted" =>
        \A p \in 1..Len(records) :
            ~IsFailure(records[p]) => Chains(records[p]) = Chains(firstRun[p])

\* C6: a second run of build_parent_chains over the records the first run
\* has resolved leaves every record's ancestorIds and ancestorLabels as the
\* first run left them.
C6_Idempotent ==
    pc = "again" =>
        \A p \in 1..Len(records) :
            ~IsFailure(records[p]) => Chains(records[p]) = Chains(firstRun[p])

\* the second run is over, and some record has a chain of two ancestors or
\* more and some record a chain that ends with the cycle sentinel
C6_Witness ==
    /\ pc = "again"
    /\ \E p \in DefPositions : Len(records[p].parentsChainIds) >= 2
    /\ \E p \in DefPositions :
          /\ records[p].parentsChainLabels # <<>>
          /\ Last(records[p].parentsChainLabels) = CycleSentinel

\* ------------------------------------------------------------------------
\* Properties of the scan
\* ------------------------------------------------------------------------

\* the positions in a list of records of what the file at f contributed
FromFile(recs, f) == {i \in 1..Len(recs) : recs[i].filePath = filePathOf(AllFiles[f])}

BadFiles == {f \in Range(scanned) : ~AllFiles[f].wellFormed}

\* the files read so far without those that cannot be parsed
GoodScanned == SelectSeq(scanned, LAMBDA f : AllFiles[f].wellFormed)

\* C7: a file that cannot be parsed contributes exactly one ParseFailure and
\* no Record to records and to the payload, and the Records extracted are
\* those of a scan of the same files without the files that cannot be parsed.
C7_ParseFailureIsolated ==
    /\ \A f \in BadFiles :
          /\ Cardinality(FromFile(records, f)) = 1
          /\ \A i \in FromFile(records, f) : IsFailure(records[i])
          /\ pc = "done" =>
                /\ Cardinality(FromFile(payload, f)) = 1
                /\ \A i \in FromFile(payload, f) : IsFailure(payload[i])
    /\ pc \in {"scan", "index"} =>
          SelectSeq(records, LAMBDA r : ~IsFailure(r))
            = Flatten([i \in 1..Len(GoodScanned) |-> ExtractFile(AllFiles[GoodScanned[i]])])

\* the batch is done, and a file that could not be parsed was followed by a
\* file that contributed Records
C7_Witness ==
    /\ pc = "done"
    /\ \E i, j \in 1..Len(scanned) :
          /\ i < j
          /\ scanned[i] \in BadFiles
          /\ \E k \in FromFile(payload, scanned[j]) : ~IsFailure(payload[k])

\* C8: the patch strategy contributes to a file only if the definitions
\* strategy gave nothing for it, so the Records of one file are all of one
\* kind.
C8_OneStrategyPerFile ==
    \A f \in Range(scanned) :
        LET recs == {records[i] : i \in {j \in FromFile(records, f) : ~IsFailure(records[j])}}
        IN  /\ \A r1, r2 \in recs : r1.kind = r2.kind
            /\ (\E r \in recs : r.kind = "patch") => extract_defs_from_file(AllFiles[f]) = <<>>

\* a file for which either strategy yields Records was read and contributed defs
C8_Witness ==
    \E f \in Range(scanned) :
        /\ AllFiles[f].wellFormed
        /\ extract_defs_from_file(AllFiles[f]) # <<>>
        /\ extract_patches_from_file(AllFiles[f]) # <<>>
        /\ FromFile(records, f) # {}
        /\ \A i \in FromFile(records, f) : records[i].kind = "def"

\* ------------------------------------------------------------------------
\* Patch records and resolution
\* ------------------------------------------------------------------------

\* the positions in records of the patch records
PatchPositions == {defs[i] : i \in {j \in 1..Len(defs) : records[defs[j]].kind = "patch"}}

\* the def at p names a parent that no def record of any source has, while
\* a patch record has the category and the name
ParentOnlyAPatch(p) ==
    /\ records[p].parentName # None
    /\ \A s \in DefSources : ~HasDef(s, records[p].defType, records[p].parentName[1])
    /\ \E q \in PatchPositions :
          /\ records[q].defType = records[p].defType
          /\ records[q].defName = records[p].parentName[1]

\* C15: once the chains are resolved, every patch record has empty
\* ancestorIds and ancestorLabels, no id of a patch record occurs in any
\* ancestorIds, and a def whose (category, parentName) is matched by a patch
\* record only is treated as one with a missing parent.
C15_PatchesOutsideResolution ==
    pc = "done" =>
        /\ \A q \in PatchPositions :
              records[q].parentsChainIds = <<>> /\ records[q].parentsChainLabels = <<>>
        /\ \A p \in DefPositions \cup PatchPositions :
              \A q \in PatchPositions : records[q].id \notin Range(records[p].parentsChainIds)
        /\ \A p \in DefPositions :
              ParentOnlyAPatch(p) =>
                  /\ records[p].parentsChainIds = <<>>
                  /\ records[p].parentsChainLabels =
                        << MissingLabel(records[p].defType, records[p].parentName[1]) >>

\* the scan is over, with a patch record and a def whose parent reference
\* names that patch record's category and name
C15_Witness ==
    /\ pc = "done"
    /\ \E p \in DefPositions : ParentOnlyAPatch(p)

\* ------------------------------------------------------------------------
\* What the resolver leaves alone
\* ------------------------------------------------------------------------

\* a record without its two ancestor fields
WithoutChains(r) ==
    [f \in DOMAIN r \ {"parentsChainIds", "parentsChainLabels"} |-> r[f]]

\* C16: from the moment all records exist, a step changes at most the two
\* ancestor fields of a record: every other field of every record, the
\* number of records and the order of the lists stay as they are; the
\* payload is the list of the records as resolved, and no step changes it
\* once it is assembled.
C16_ResolverFrame ==
    /\ [][ pc \notin {"scan", "page", "call"} =>
              /\ Len(records') = Len(records)
              /\ \A i \in 1..Len(records) : WithoutChains(records'[i]) = WithoutChains(records[i])
              /\ pc # "index" => defs' = defs /\ errors' = errors
              /\ payload # <<>> => payload' = payload ]_vars
    /\ [][ pc = "page" => payload' = payload ]_vars
    /\ [](pc = "done" => payload = [i \in 1..Len(defs \o errors) |-> records[(defs \o errors)[i]]])

\* the payload is assembled and one of its records has a resolved parent
\* and another record is a patch
C16_Witness ==
    /\ pc = "done"
    /\ \E i, j \in 1..Len(defs) :
          /\ payload[i].kind = "def" /\ payload[i].parentsChainIds # <<>>
          /\ payload[j].kind = "patch"

\* ------------------------------------------------------------------------
\* Ancestors listed once
\* ------------------------------------------------------------------------

\* no entry of a sequence comes twice
NoRepeat(ids) == \A i, j \in 1..Len(ids) : ids[i] = ids[j] => i = j

\* C19: once the chains are resolved, no record id occurs more than once in
\* the ancestorIds of any record, also when the walk crosses from one source
\* into another.
C19_NoAncestorTwice ==
    pc = "done" => \A p \in DefPositions : NoRepeat(records[p].parentsChainIds)

\* ------------------------------------------------------------------------
\* Chains resolved to a root
\* ------------------------------------------------------------------------

\* the walk of the def at p has resolved a parent at every step and the
\* parent it resolved last names no parent
WalkReachedRoot(p) ==
    \E n \in {Len(records[p].parentsChainIds)} :
        /\ n >= 1
        /\ ResolvableSteps(p, n) = n
        /\ ~Truthy(records[Climb(p, n)].parentName)

\* C20: once the chains are resolved, for every def whose walk resolved
\* every step and reached a parent with no parentName, whatever the number
\* of steps, ancestorLabels holds no sentinel and exactly one label
\* "category:name [source]" for each entry of ancestorIds.
C20_ResolvedChainHasNoSentinel ==
    pc = "done" =>
        \A p \in DefPositions :
            WalkReachedRoot(p) =>
                /\ Len(records[p].parentsChainLabels) = Len(records[p].parentsChainIds)
                /\ \A i \in 1..Len(records[p].parentsChainLabels) :
                      /\ records[p].parentsChainLabels[i] \notin {CycleSentinel, DepthSentinel}
                      /\ i <= Len(records[p].parentsChainIds) =>
                            \E q \in DefPositions :
                                /\ records[q].id = records[p].parentsChainIds[i]
                                /\ records[p].parentsChainLabels[i] = ParentLabel(records[q])

\* ------------------------------------------------------------------------
\* Ancestor ids and labels side by side
\* ------------------------------------------------------------------------

EndsWith(s, p) == Len(s) >= Len(p) /\ SubSeq(s, Len(s) - Len(p) + 1, Len(s)) = p

\* a label that stands for the end of a walk, not for a parent
IsSentinel(lbl) == lbl \in {CycleSentinel, DepthSentinel} \/ EndsWith(lbl, " (missing)")

\* the labels are the labels of the records the ids name, one for one and
\* in order, with at most one sentinel after them
Aligned(ids, labels) ==
    /\ Len(labels) - Len(ids) \in {0, 1}
    /\ \A i \in 1..Len(ids) :
          /\ ~IsSentinel(labels[i])
          /\ \E q \in DefPositions : records[q].id = ids[i]
          /\ \A q \in DefPositions :
                records[q].id = ids[i] => labels[i] = ParentLabel(records[q])
    /\ Len(labels) > Len(ids) => IsSentinel(labels[Len(labels)])

\* C23: once the chains are resolved, the ancestorLabels of every record are
\* the labels "category:name [source]" of the records its ancestorIds name,
\* in the same order, followed by at most one sentinel (missing, cycle or
\* depth): the labels are as many as the ids or one more, a sentinel is the
\* last label only, label i describes id i, and a record without parentName
\* has both lists empty.
C23_AncestorListsAligned ==
    pc = "done" =>
        \A p \in 1..Len(records) :
            ~IsFailure(records[p]) =>
                /\ Aligned(records[p].parentsChainIds, records[p].parentsChainLabels)
                /\ ~Truthy(records[p].parentName) =>
                      Chains(records[p]) = << <<>>, <<>> >>

\* the chains are resolved, one def has a parent and a sentinel after its
\* label, and one def without parentName has no ancestors
C23_Witness ==
    /\ pc = "done"
    /\ \E p \in DefPositions :
          /\ Len(records[p].parentsChainIds) >= 1
          /\ Len(records[p].parentsChainLabels) = Len(records[p].parentsChainIds) + 1
    /\ \E p \in DefPositions :
          /\ Len(records[p].parentsChainIds) >= 2
          /\ Len(records[p].parentsChainLabels) = Len(records[p].parentsChainIds)
    /\ \E p \in DefPositions :
          ~Truthy(records[p].parentName) /\ records[p].parentsChainLabels = <<>>

\* ------------------------------------------------------------------------
\* Hiding and showing the filters
\* ------------------------------------------------------------------------

\* C24: the sidebar is shown when the page opens and every click of the
\* filters button flips it, so after an odd number of clicks the sidebar is
\* hidden and the button reads "Show Filters", and after an even number
\* the sidebar is shown and the button reads "Hide Filters".
C24_FilterPanelFlips ==
    pc = "page" =>
        IF clicks % 2 = 1
        THEN sidebarDisplay = "none" /\ toggleFiltersText = "Show Filters"
        ELSE sidebarDisplay = "" /\ toggleFiltersText = "Hide Filters"

\* ------------------------------------------------------------------------
\* Properties of the page
\* ------------------------------------------------------------------------

\* the positions in the page's records of the rows shown, over all groups
Shown == UNION {Range(results.groups[g].rows) : g \in 1..Len(results.groups)}

\* the texts of a record in which a token is looked for
SearchedFields(d) ==
    { d.source, d.defType, d.defName, OrEmpty(d.label), OrEmpty(d.description),
      d.textBlob, d.filePath, d.rawXml }

\* every token of the query is, letter case aside, part of one of the texts
EveryTokenFound(d) ==
    \A i \in 1..Len(tokenize(query)) :
        \E text \in SearchedFields(d) : Includes(ToLower(text), ToLower(tokenize(query)[i]))

\* C9: a record is among the results shown exactly when its source is
\* enabled, its category is enabled, and the tokenized query is empty or
\* every token is a case-insensitive substring of one of source, category,
\* name, label, description, full text, file path and raw markup; so a
\* record of a disabled source or category is never shown.
C9_MatchPredicate ==
    \A p \in 1..Len(JsDefs(payload)) :
        LET d == JsDefs(payload)[p]
        IN  /\ p \in Shown <=>
                  /\ d.source \in sourceFilter
                  /\ d.defType \in typeFilter
                  /\ tokenize(query) = <<>> \/ EveryTokenFound(d)
            /\ (d.source \notin sourceFilter \/ d.defType \notin typeFilter) => p \notin Shown

\* a query of two tokens is in force and a source is disabled: a record is
\* shown, a record of an enabled source and category is not, for want of a
\* token, and a record in which every token is found is not, for its source
C9_Witness ==
    /\ Len(tokenize(query)) >= 2
    /\ Shown # {}
    /\ \E p \in 1..Len(JsDefs(payload)) :
          /\ JsDefs(payload)[p].source \in sourceFilter
          /\ JsDefs(payload)[p].defType \in typeFilter
          /\ p \notin Shown
    /\ \E p \in 1..Len(JsDefs(payload)) :
          /\ JsDefs(payload)[p].source \notin sourceFilter
          /\ EveryTokenFound(JsDefs(payload)[p])
          /\ p \notin Shown

\* the positions in the page's records of the records that match
Matching ==
    {p \in 1..Len(JsDefs(payload)) :
        matchRecord(JsDefs(payload)[p], tokenize(query), sourceFilter, typeFilter)}

\* C10: the groups shown partition the matching records by category (each
\* matching record is in exactly one group, that of its category, no group
\* is empty, each group's count is the number of its rows), the groups are
\* in ascending order of category, and the rows of a group are in
\* ascending order of name, rows of one name in ascending order of source.
C10_ResultShaping ==
    LET recs   == JsDefs(payload)
        groups == results.groups
        places(p) == {<< g, r >> \in (1..Len(groups)) \X (1..Len(recs)) :
                         r <= Len(groups[g].rows) /\ groups[g].rows[r] = p}
    IN  /\ \A p \in Matching :
              /\ Cardinality(places(p)) = 1
              /\ \A pl \in places(p) : groups[pl[1]].type = recs[p].defType
        /\ Shown \subseteq Matching
        /\ \A g \in 1..Len(groups) :
              /\ groups[g].rows # <<>>
              /\ groups[g].count = Len(groups[g].rows)
              /\ \A r \in 1..(Len(groups[g].rows) - 1) :
                    LET a == recs[groups[g].rows[r]]
                        b == recs[groups[g].rows[r + 1]]
                    IN  \/ localeCompare(a.defName, b.defName) < 0
                        \/ /\ localeCompare(a.defName, b.defName) = 0
                           /\ localeCompare(a.source, b.source) <= 0
        /\ \A g \in 1..(Len(groups) - 1) : localeCompare(groups[g].type, groups[g + 1].type) < 0
        /\ results.header = [records |-> Cardinality(Matching), groups |-> Len(groups)]

\* a query is in force and two groups or more are shown, in an order other
\* than that of the payload, and in one of them two records of one name and
\* two sources follow one another, the later of the payload first
C10_Witness ==
    /\ tokenize(query) # <<>>
    /\ Len(results.groups) >= 2
    /\ results.groups[1].rows[1] > results.groups[2].rows[1]
    /\ \E g \in 1..Len(results.groups) :
          \E r \in 1..(Len(results.groups[g].rows) - 1) :
              LET a == JsDefs(payload)[results.groups[g].rows[r]]
                  b == JsDefs(payload)[results.groups[g].rows[r + 1]]
              IN  /\ a.defName = b.defName
                  /\ a.source # b.source
                  /\ results.groups[g].rows[r] > results.groups[g].rows[r + 1]


\* ------------------------------------------------------------------------
\* Functions applied on their own
\* ------------------------------------------------------------------------

\* the texts shown in the detail pane
HighlightTexts == { "Shotgun", "shotgun shot", "A&B gun", "Gun <Shot>", "un", "" }

\* the search texts whose tokens are marked
HighlightQueries ==
    { "", "gun", "GUN shot", "sho shot", "shot sho", "gun un", "un gun", "amp", "b  gun" }

HighlightCalls ==
    { [fn |-> f, text |-> t, query |-> q] :
        f \in {"highlightText", "markTermsInElement"}, t \in HighlightTexts, q \in HighlightQueries }

\* the files handed to the patch strategy
PatchFiles ==
    { CoreFix, CoreMoreFix, CoreSequence, CoreTools, RoyaltyStub, RoyaltyBroken, CoreKeys }

PatchCalls == { [fn |-> "extract_patches_from_file", file |-> f] : f \in PatchFiles }

\* <things> with n list items <li>i1</li> ... <li>in</li>, the item at
\* position blank (if any) holding white space only
ListNode(n, blank) ==
    Node("things", [i \in 1..n |-> IF i = blank THEN Leaf("li", "  ")
                                   ELSE Leaf("li", " i" \o ToString(i))])

ListCalls ==
    { [fn |-> "summarize_child_node", n |-> n, blank |-> b] : n \in 1..MaxListLen, b \in 0..MaxListLen }

\* <value> with n children <t1/> ... <tn/> that are neither list items nor
\* leaves with text, the child at position same (if any) having the tag of
\* the first
MixedNode(n, same) ==
    Node("value", [i \in 1..n |-> Node(IF i = same THEN "t1" ELSE "t" \o ToString(i), <<>>)])

FieldCalls ==
    { [fn |-> "extract_top_level_fields", n |-> n, same |-> d] :
        n \in 1..MaxMixedLen, d \in {0} \cup (2..MaxMixedLen) }

InitCalls ==
    /\ dataRoot = {}
    /\ scanned = <<>>
    /\ records = <<>>
    /\ defs = <<>>
    /\ errors = <<>>
    /\ index = EmptyIndex
    /\ di = 0
    /\ walk = NoWalk
    /\ payload = <<>>
    /\ pc = "call"
    /\ firstRun = <<>>
    /\ NoSelection
    /\ searchValue = ""
    /\ timer = 0
    /\ pending = {}
    /\ query = ""
    /\ sourceFilter = {}
    /\ typeFilter = {}
    /\ groupOpen = << >>
    /\ results = [header |-> [records |-> 0, groups |-> 0], groups |-> <<>>]
    /\ \E c \in HighlightCalls \cup PatchCalls \cup ListCalls \cup FieldCalls : callArgs = Some(c)
    /\ callResult = None
    /\ PanelShown

\* highlightText(text, tokenize(state.query)), as selectRecord calls it
CallHighlightText ==
    /\ pc = "call"
    /\ callResult = None
    /\ callArgs[1].fn = "highlightText"
    /\ callResult' = Some(highlightText(callArgs[1].text, tokenize(callArgs[1].query)))
    /\ UNCHANGED << mainVars, firstRun, searchValue, timer, pending, query, sourceFilter, typeFilter,
                    groupOpen, results, selVars, markVars, lookupVars, callArgs, panelVars >>

\* markTermsInElement(detail.rawXml, tokenize(state.query)), the raw XML
\* being <label>text</label>
CallMarkTermsInElement ==
    /\ pc = "call"
    /\ callResult = None
    /\ callArgs[1].fn = "markTermsInElement"
    /\ callResult' = Some(markTermsInElement(XmlTextNodes("label", callArgs[1].text),
                                             tokenize(callArgs[1].query)))
    /\ UNCHANGED << mainVars, firstRun, searchValue, timer, pending, query, sourceFilter, typeFilter,
                    groupOpen, results, selVars, markVars, lookupVars, callArgs, panelVars >>

\* extract_patches_from_file(xml_path, root_data, source_name)
CallExtractPatches ==
    /\ pc = "call"
    /\ callResult = None
    /\ callArgs[1].fn = "extract_patches_from_file"
    /\ callResult' = Some(extract_patches_from_file(callArgs[1].file))
    /\ UNCHANGED << mainVars, firstRun, searchValue, timer, pending, query, sourceFilter, typeFilter,
                    groupOpen, results, selVars, markVars, lookupVars, callArgs, panelVars >>

\* summarize_child_node(child), as extract_top_level_fields calls it
CallSummarize ==
    /\ pc = "call"
    /\ callResult = None
    /\ callArgs[1].fn = "summarize_child_node"
    /\ callResult' = Some(summarize_child_node(ListNode(callArgs[1].n, callArgs[1].blank)))
    /\ UNCHANGED << mainVars, firstRun, searchValue, timer, pending, query, sourceFilter, typeFilter,
                    groupOpen, results, selVars, markVars, lookupVars, callArgs, panelVars >>

\* extract_top_level_fields(defnode) on <ThingDef><defName>Gun</defName>
\* <value>...</value></ThingDef>
CallExtractFields ==
    /\ pc = "call"
    /\ callResult = None
    /\ callArgs[1].fn = "extract_top_level_fields"
    /\ callResult' = Some(extract_top_level_fields(
                            Node("ThingDef", << Leaf("defName", "Gun"),
                                                MixedNode(callArgs[1].n, callArgs[1].same) >>)))
    /\ UNCHANGED << mainVars, firstRun, searchValue, timer, pending, query, sourceFilter, typeFilter,
                    groupOpen, results, selVars, markVars, lookupVars, callArgs, panelVars >>

NextCalls ==
    \/ CallHighlightText
    \/ CallMarkTermsInElement
    \/ CallExtractPatches
    \/ CallSummarize
    \/ CallExtractFields

SpecCalls == InitCalls /\ [][NextCalls]_vars

\* ------------------------------------------------------------------------
\* Highlighting
\* ------------------------------------------------------------------------

\* the texts of a sequence of text nodes and mark elements, put together
RECURSIVE PiecesText(_)
PiecesText(pieces) ==
    IF pieces = <<>> THEN "" ELSE Head(pieces).text \o PiecesText(Tail(pieces))

\* what highlightText returned shows the original text, each mark element
\* holds an occurrence of a token, and no two mark elements share a character
DisjointMarks(text, terms, html) ==
    LET p == ParseMarks(html, "", <<>>, <<>>)
    IN  /\ p.text = text
        /\ \A i \in 1..Len(p.marks) :
              ToLower(SubSeq(text, p.marks[i].from, p.marks[i].to)) \in Range(terms)
        /\ \A i, j \in 1..Len(p.marks) :
              i # j => p.marks[i].to < p.marks[j].from \/ p.marks[j].to < p.marks[i].from

\* the nodes markTermsInElement left in place of each text node spell the
\* text node's value, and each mark element among them holds a token
DisjointPieces(nodes, terms, frags) ==
    \A n \in 1..Len(nodes) :
        /\ PiecesText(frags[n]) = nodes[n]
        /\ \A i \in 1..Len(frags[n]) :
              frags[n][i].mark => ToLower(frags[n][i].text) \in Range(terms)

\* C12: for every displayed text and every set of query tokens, each span
\* marked by highlightText or markTermsInElement is a case-insensitive
\* occurrence of a query token in the original text, and no character is
\* inside more than one marked span.
C12_MarksAreDisjointOccurrences ==
    (pc = "call" /\ callResult # None) =>
        /\ callArgs[1].fn = "highlightText" =>
              DisjointMarks(callArgs[1].text, tokenize(callArgs[1].query), callResult[1])
        /\ callArgs[1].fn = "markTermsInElement" =>
              DisjointPieces(XmlTextNodes("label", callArgs[1].text),
                             tokenize(callArgs[1].query), callResult[1])

\* ------------------------------------------------------------------------
\* Patch ordinals
\* ------------------------------------------------------------------------

\* the operation elements of a file, Operation elements and list items with
\* a Class alike, in document order
OperationsInDocumentOrder(f) ==
    SelectSeq(PathsBelow(f.root, <<>>),
              LAMBDA at : \/ ElemAt(f.root, at).tag = "Operation"
                          \/ ElemAt(f.root, at).tag = "li" /\ ElemAt(f.root, at).Class # None)

\* C14: a file with n operation elements gives n patch records named
\* <fileStem>#0001 to #<n> without gap or repeat, and the records follow the
\* document order of their elements, also when Operation elements are mixed
\* with list items that carry a Class.
C14_PatchOrdinalsFollowDocument ==
    (pc = "call" /\ callResult # None /\ callArgs[1].fn = "extract_patches_from_file"
       /\ callArgs[1].file.wellFormed) =>
        LET f   == callArgs[1].file
            ops == OperationsInDocumentOrder(f)
        IN  /\ Len(callResult[1]) = Len(ops)
            /\ \A i \in 1..Len(ops) :
                  /\ callResult[1][i].defName = f.stem \o "#" \o Pad4(i)
                  /\ callResult[1][i].rawXml = pretty_xml_of_node(ElemAt(f.root, ops[i]))

\* ------------------------------------------------------------------------
\* Summary of a list
\* ------------------------------------------------------------------------

\* the first items of a list of n, at most limit of them, as the summary
\* shows them, from item i on
RECURSIVE ItemsShown(_, _, _, _)
ItemsShown(i, n, blank, limit) ==
    IF i > n \/ i > limit THEN ""
    ELSE (IF i > 1 THEN ", " ELSE "")
           \o (IF i = blank THEN "(empty)" ELSE "i" \o ToString(i))
           \o ItemsShown(i + 1, n, blank, limit)

\* C18: for a child with n >= 1 children, all of them list items, the
\* summary holds the first min(n, 12) items in document order, a blank item
\* as "(empty)", joined by ", ", and ends with ", +<n-12> more" if and only
\* if n > 12.
C18_ListSummary ==
    (pc = "call" /\ callResult # None /\ callArgs[1].fn = "summarize_child_node") =>
        LET n == callArgs[1].n
        IN  callResult[1] =
                "[" \o ItemsShown(1, n, callArgs[1].blank, 12)
                    \o (IF n > 12 THEN ", +" \o ToString(n - 12) \o " more" ELSE "") \o "]"

\* the summary of a list of 13 items, one of the first 12 blank
C18_Witness ==
    /\ pc = "call"
    /\ callResult # None
    /\ callArgs[1].fn = "summarize_child_node"
    /\ callArgs[1].n = 13
    /\ callArgs[1].blank = 2
    /\ callResult[1] = "[i1, (empty), i3, i4, i5, i6, i7, i8, i9, i10, i11, i12, +1 more]"

\* ------------------------------------------------------------------------
\* Field summaries of a patch record
\* ------------------------------------------------------------------------

\* the field pairs hold one pair for each child of the element: as many
\* pairs of a key as the element has children of that tag
OnePairPerChild(pairs, elem) ==
    /\ Len(pairs) = Len(elem.kids)
    /\ \A i \in 1..Len(elem.kids) :
          Cardinality({ j \in 1..Len(pairs) : pairs[j].k = elem.kids[i].tag })
            = Cardinality({ j \in 1..Len(elem.kids) : elem.kids[j].tag = elem.kids[i].tag })

\* C21: the field summaries of every patch record hold exactly one entry
\* for each direct child of its operation element, whatever the child's tag,
\* a child named label, description, defName, parentName or abstract
\* included.
C21_PatchSummariesCoverChildren ==
    (pc = "call" /\ callResult # None /\ callArgs[1].fn = "extract_patches_from_file"
       /\ callArgs[1].file.wellFormed) =>
        LET f == callArgs[1].file
        IN  \A i \in 1..Len(callResult[1]) :
              \E j \in 1..Len(OperationsInDocumentOrder(f)) :
                 LET opnode == ElemAt(f.root, OperationsInDocumentOrder(f)[j])
                 IN  /\ callResult[1][i].rawXml = pretty_xml_of_node(opnode)
                     /\ OnePairPerChild(callResult[1][i].kvPairs, opnode)

\* ------------------------------------------------------------------------
\* Summary of a mixed structure
\* ------------------------------------------------------------------------

\* the parts of a text between the occurrences of a separator
RECURSIVE SplitBy(_, _)
SplitBy(s, sep) ==
    IF IndexFrom(s, sep, 1) = 0 THEN << s >>
    ELSE << SubSeq(s, 1, IndexFrom(s, sep, 1) - 1) >>
           \o SplitBy(SubSeq(s, IndexFrom(s, sep, 1) + Len(sep), Len(s)), sep)

\* the items written between the brackets of a summary
SummaryItems(v) == SplitBy(SubSeq(v, 2, Len(v) - 1), ", ")

HasMoreSuffix(v) == StartsWith(SummaryItems(v)[Len(SummaryItems(v))], "+")

\* the names a summary lists, the "+k more" item set aside
ListedNames(v) ==
    IF HasMoreSuffix(v) THEN SubSeq(SummaryItems(v), 1, Len(SummaryItems(v)) - 1)
    ELSE SummaryItems(v)

\* C22: the summary of a child that is neither a leaf, a list nor a map
\* lists at most 6 tag names of its children, no tag name twice, and ends
\* with "+k more" exactly when the children have more tag names than the
\* summary lists.
C22_MixedSummaryDistinctTags ==
    (pc = "call" /\ callResult # None /\ callArgs[1].fn = "extract_top_level_fields") =>
        LET kids  == MixedNode(callArgs[1].n, callArgs[1].same).kids
            tags  == { kids[i].tag : i \in 1..Len(kids) }
            v     == callResult[1][1].v
            names == ListedNames(v)
        IN  /\ Len(callResult[1]) = 1
            /\ Len(names) <= 6
            /\ Range(names) \subseteq tags
            /\ \A i, j \in 1..Len(names) : i # j => names[i] # names[j]
            /\ HasMoreSuffix(v) <=> Cardinality(tags) > Cardinality(Range(names))

\* ------------------------------------------------------------------------

\* the record shown in the detail pane has its source and its category enabled
SelectedEnabled ==
    detail # 0 =>
        /\ JsDefs(payload)[detail].source \in sourceFilter
        /\ JsDefs(payload)[detail].defType \in typeFilter

\* C11: whenever an existing record is selected by id (location hash, result
\* row or ancestor entry), once the selection has been processed, that is no
\* hashchange event is left to dispatch, the source and the category of the
\* selected record are enabled, whatever the filters were before.
C11_SelectionEnablesFilters == (justSelected /\ hashEvents = 0) => SelectedEnabled

\* ------------------------------------------------------------------------
\* Values of a tag
\* ------------------------------------------------------------------------

\* the values of a tag anywhere in the record set
ValuesAnywhere(tag) ==
    UNION {Range(ValuesIn(d, tag)) : d \in Range(JsDefs(payload))}

\* the occurrences of a tag anywhere in the record set
OccurrencesAnywhere(tag) ==
    UNION {{[val |-> v, src |-> d.source, type |-> d.defType, name |-> d.defName] :
               v \in Range(ValuesIn(d, tag))} : d \in Range(JsDefs(payload))}

\* the records the current query and filters show
ShownRecords ==
    {d \in Range(JsDefs(payload)) : matchRecord(d, tokenize(query), sourceFilter, typeFilter)}

\* the view in the values pane is the one of the whole record set
ViewOfWholeSet ==
    similar # None =>
        /\ currentTag = Some(similar[1].tag)
        /\ similarMode = similar[1].view
        /\ similar[1].count = Len(similar[1].body)
        /\ similar[1].view = "unique" =>
              /\ Range(similar[1].body) = ValuesAnywhere(similar[1].tag)
              /\ Cardinality(ValuesAnywhere(similar[1].tag)) = similar[1].count
        /\ similar[1].view = "all" =>
              Range(similar[1].body) = OccurrencesAnywhere(similar[1].tag)

\* C13: for every tag name the unique-values view and the all-occurrences
\* view are those of the whole record set, whatever the query text and the
\* enabled sources and categories are, and a step that computes a view
\* changes neither the record set nor the query nor the enabled sources and
\* categories.
C13_LookupIgnoresFilters ==
    /\ []ViewOfWholeSet
    /\ [][ lookupVars' # lookupVars =>
              UNCHANGED << payload, searchValue, query, sourceFilter, typeFilter >> ]_vars

\* a view is shown that holds a value found in no record the query and the
\* filters show, with a source disabled and a query in force
C13_Witness ==
    /\ similar # None
    /\ query # ""
    /\ sourceFilter # SourceNames
    /\ \E v \in ValuesAnywhere(similar[1].tag) :
          \A d \in ShownRecords : v \notin Range(ValuesIn(d, similar[1].tag))

\* ------------------------------------------------------------------------
\* Debounced search
\* ------------------------------------------------------------------------

\* the results shown are those renderResults computes from the record set,
\* the stored query and the enabled sources and categories
ResultsUpToDate ==
    \E r \in {renderResults(payload, query, sourceFilter, typeFilter, groupOpen)} :
        results = [header |-> r.header, groups |-> r.groups]

\* C17: at most one debounce timer is pending at any time; whenever none is
\* pending the stored query is the content of the search box; after every
\* handler the results shown are the function of the record set, the stored
\* query and the enabled sources and categories; and a pending timer leads
\* to a state with none pending, where the view is the one of the text typed
\* last.
C17_DebouncedSearch ==
    /\ [](Cardinality(pending) <= 1)
    /\ [](pending = {} => query = searchValue)
    /\ []ResultsUpToDate
    /\ (pending # {}) ~> (pending = {} /\ query = searchValue /\ ResultsUpToDate)

\* a second keystroke has replaced the timer of the first, the timer has run
\* and a source has been disabled
C17_Witness ==
    /\ timer # 0
    /\ pending = {}
    /\ query = "gun core"
    /\ sourceFilter # SourceNames
    /\ results.header.records > 0

====
